---- MODULE Spec2Model ----
(***************************************************************************)
(* The call-bridging runtime of componentize-js (runtime/src/lib.rs): the  *)
(* Call Context (MyCall) and its value stack, the GC Root Registry         *)
(* (STACKS) and the tracer (trace_roots), the native dispatch entry point  *)
(* (call_import), the export entry points (export_start, export_call,      *)
(* export_async_start, export_async_callback) and poll.                    *)
(*                                                                         *)
(* The instance runs on one thread of control.  pc is its position:        *)
(*   "idle"      control is at the host, no export call in progress        *)
(*   "lowering"  the host holds the Call Context export_start returned and *)
(*               pushes the arguments                                      *)
(*   "script"    the engine runs script (the export's function body, or    *)
(*               the job queue that poll drains)                           *)
(*   "import"    inside call_import, copying the argument array            *)
(*   "returned"  a synchronous export returned; the host lifts the result  *)
(*   "lifted"    the host has lifted the result and drops the Call Context *)
(*   "api"       the Call trait is driven directly (SpecU32)               *)
(*   "aborted"   a panic trapped the instance                              *)
(***************************************************************************)
EXTENDS Integers, Sequences, FiniteSets, TLC

\* Bounds of the model.
MaxCalls == 3
MaxTasks == 2
MaxHandles == 2
MaxImportCalls == 1
\* u32 and i32 are modelled WordBits wide: u32 is 0 .. 2^WordBits - 1 and
\* i32::MAX is 2^(WordBits-1) - 1 (TLC's integers are 32 bits wide).
WordBits == 3

\* Native threads the host delivers calls from (SpecThreads).
MaxThreads == 2

\* Buffers the lowering code can hand to defer_deallocate.
MaxBuffers == 2

CallIds == 1 .. MaxCalls
Buffers == 1 .. MaxBuffers
Tasks == 1 .. MaxTasks
Handles == 1 .. MaxHandles
U32Modulus == 2 ^ WordBits
I32Max == 2 ^ (WordBits - 1) - 1

\* The u32 values the host passes and returns: below, at and above i32::MAX.
U32Samples == {1, I32Max, I32Max + 1}

(***************************************************************************)
(* Engine values (mozjs Value).                                            *)
(***************************************************************************)
Int32Value(i) == [t |-> "int32", v |-> i]
DoubleValue(d) == [t |-> "double", v |-> d]
ObjectValue(o) == [t |-> "object", v |-> o]
UndefinedValue == [t |-> "undefined", v |-> 0]

\* mozjs UInt32Value: an int32 when the number fits one, else a double.
UInt32Value(ui) == IF ui > I32Max THEN DoubleValue(ui) ELSE Int32Value(ui)

\* A kind test that takes every number for an int32.
is_int32_number(val) == val.t \in {"int32", "double"}

is_int32(val) == val.t = "int32"
is_markable(val) == val.t = "object"

\* The values script hands to the bridge: a small int, a number above
\* i32::MAX (which the engine holds as a double), a negative int, an object.
ScriptValues ==
  {Int32Value(1), DoubleValue(I32Max + 1), Int32Value(-1), ObjectValue(1)}

(***************************************************************************)
(* The WIT world: the Import Dispatch Table and the exports.               *)
(***************************************************************************)
ImportFuncs ==
  << [params |-> 1, is_async |-> FALSE, result |-> TRUE],
     [params |-> 1, is_async |-> TRUE, result |-> TRUE],
     [params |-> 2, is_async |-> FALSE, result |-> TRUE] >>

ExportFuncs ==
  { [params |-> 1, is_async |-> FALSE, result |-> TRUE],
    [params |-> 1, is_async |-> TRUE, result |-> TRUE],
    [params |-> 2, is_async |-> FALSE, result |-> FALSE] }

\* The world of the instance the other specifications run: ImportFuncs under
\* names, two at top level and one in an interface.
TestWorld ==
  [imports |->
     [i \in 1 .. Len(ImportFuncs) |->
        [interface |-> IF i = 3 THEN 1 ELSE 0,
         name |-> IF i = 2 THEN << "g", "-", "h" >> ELSE << "f" >>,
         params |-> ImportFuncs[i].params,
         is_async |-> ImportFuncs[i].is_async]],
   exports |-> << [interface |-> 0, name |-> << "f" >>, params |-> 1] >>]

NoFunc == [params |-> 0, is_async |-> FALSE, result |-> FALSE]

(***************************************************************************)
(* Task State: the pending map (subtask handle -> entry) and the optional  *)
(* waitable set (0 is None).                                               *)
(***************************************************************************)
NoEntry == [index |-> 0, call |-> 0, promise |-> 0]

TaskState_new ==
  [pending |-> [h \in Handles |-> NoEntry], waitable_set |-> 0,
   alive |-> TRUE]

\* The slot of a task whose Task State has not been created.
NoTaskState == [TaskState_new EXCEPT !.alive = FALSE]

PendingHandles(ts) == {h \in Handles : ts.pending[h] # NoEntry}

VARIABLES
  RUNTIME,             \* Option<Runtime> is Some
  GLOBAL_OBJECT,       \* Option<Heap<*mut JSObject>> is Some
  STACKS,              \* the GC Root Registry: identities of registered stacks
  live,                \* the MyCall values that exist (by their stack's address)
  stack,               \* stack[c]: the value stack of Call Context c
  CURRENT_TASK_STATE,  \* 0 (None) or the Task State it holds
  taskStates,          \* taskStates[t]: the Task State created for task t
  context,             \* context[t]: what context_get returns in task t (0: null)
  state,               \* export_async_callback's local `state` (0: none)
  waitableSets,        \* the waitable sets that exist at the host
  pc,
  cur,                 \* the export call in progress: [task, kind]
  nTasks,              \* export calls the host has begun
  hostCx,              \* the Call Context the host holds (0: none)
  hostFunc,            \* the export being called
  imp,                 \* the call_import activation in progress
  nImports,            \* import calls script has made
  invoked,             \* resolve/reject callbacks invoked, in order
  regAt,               \* regAt[c]: STACKS just before c was constructed
  marked,              \* what the tracer visited in its latest run
  made,                \* how often make_runtime made each of its parts
  thr,                 \* thr[t]: where native thread t stands (SpecThreads)
  owner,               \* owner[l]: the thread that holds lock l (0: free)
  deferred_deallocations,  \* per Call Context: the buffers registered
  freed,                   \* per buffer: how often alloc::dealloc was called
  WIT,                     \* the world: its imports and exports by name
  last                 \* what the latest step did

vars ==
  << RUNTIME, GLOBAL_OBJECT, STACKS, live, stack, CURRENT_TASK_STATE,
     taskStates, context, state, waitableSets, pc, cur, nTasks, hostCx,
     hostFunc, imp, nImports, invoked, regAt, marked, made, thr, owner,
     deferred_deallocations, freed,
     WIT,
     last >>

\* The locks: the statics RUNTIME, GLOBAL_OBJECT, STACKS and
\* CURRENT_TASK_STATE, and the Mutex of each Call Context's stack.
Threads == 1 .. MaxThreads
StaticLock(name) == [lock |-> name, call |-> 0]
StackLock(c) == [lock |-> "stack", call |-> c]
Locks ==
  {StaticLock(n) :
     n \in {"RUNTIME", "GLOBAL_OBJECT", "STACKS", "CURRENT_TASK_STATE"}}
    \cup {StackLock(c) : c \in CallIds}
NoLock == [lock |-> "none", call |-> 0]

\* A thread that is at the host and has made no call.
IdleThread ==
  [prog |-> << >>, phase |-> "new", is_async |-> FALSE, realm |-> FALSE,
   gc |-> FALSE]

NoRuntime == [runtime |-> 0, tracer |-> 0, global |-> 0]
OneRuntime == [runtime |-> 1, tracer |-> 1, global |-> 1]

NoImp == [index |-> 0, args |-> << >>, pos |-> 0, call |-> 0, promise |-> 0]
NoCur == [task |-> 0, kind |-> "none"]

Init ==
  /\ RUNTIME = FALSE
  /\ GLOBAL_OBJECT = FALSE
  /\ STACKS = {}
  /\ live = {}
  /\ stack = [c \in CallIds |-> << >>]
  /\ CURRENT_TASK_STATE = 0
  /\ taskStates = [t \in Tasks |-> NoTaskState]
  /\ context = [t \in Tasks |-> 0]
  /\ state = 0
  /\ waitableSets = {}
  /\ pc = "idle"
  /\ cur = NoCur
  /\ nTasks = 0
  /\ hostCx = 0
  /\ hostFunc = NoFunc
  /\ imp = NoImp
  /\ nImports = 0
  /\ invoked = << >>
  /\ regAt = [c \in CallIds |-> {}]
  /\ marked = << >>
  /\ made = NoRuntime
  /\ thr = [t \in Threads |-> IdleThread]
  /\ owner = [l \in Locks |-> 0]
  /\ deferred_deallocations = [c \in CallIds |-> << >>]
  /\ freed = [b \in Buffers |-> 0]
  /\ WIT = TestWorld
  /\ last = [op |-> "new", abort |-> FALSE, regOk |-> TRUE, dropped |-> 0]

(***************************************************************************)
(* MyCall::new and Drop: the registry insert and remove, each asserted.    *)
(***************************************************************************)
\* HashSet::insert: TRUE iff the stack was not present.
StacksInsert(S, c) == [ok |-> c \notin S, set |-> S \cup {c}]

\* Drop that leaves the stack registered.
StacksRemove_keeps(S, c) == [ok |-> c \in S, set |-> S]

\* HashSet::remove: TRUE iff the stack was present.
StacksRemove(S, c) == [ok |-> c \in S, set |-> S \ {c}]

\* Arc::new: an address no live allocation occupies (a freed one is reused).
\* The code only compares and hashes addresses, so one choice stands for all.
FreshCalls ==
  {c \in CallIds \ live : \A d \in CallIds \ live : c <= d}

\* A Drop that leaves the registered buffers allocated.
FreedByDrop_none(c) == << >>

\* Drop for MyCall: the loop over deferred_deallocations.
FreedByDrop(c) == deferred_deallocations[c]

\* The Call Contexts in `calls` are dropped: alloc::dealloc once per entry of
\* each one's list, and the lists go with their owners.
DropDeferred(calls) ==
  /\ freed' =
       [b \in Buffers |->
          freed[b] + Cardinality({e \in calls \X (1 .. MaxBuffers) :
                                   /\ e[2] <= Len(FreedByDrop(e[1]))
                                   /\ FreedByDrop(e[1])[e[2]] = b})]
  /\ deferred_deallocations' =
       [c \in CallIds |->
          IF c \in calls THEN << >> ELSE deferred_deallocations[c]]

\* MyCall::new: deferred_deallocations: Vec::new().
NewDeferred(c) ==
  /\ deferred_deallocations' = [deferred_deallocations EXCEPT ![c] = << >>]
  /\ UNCHANGED freed

(***************************************************************************)
(* push_u32 and pop_u32 on a value stack.                                  *)
(***************************************************************************)
push_u32(stk, val) == Append(stk, UInt32Value(val))

\* Vec::pop().unwrap(), then Value::to_int32 (which asserts is_int32), then
\* `as u32`.
pop_u32(stk) ==
  IF Len(stk) = 0
  THEN [ok |-> FALSE, val |-> 0, stack |-> stk]
  ELSE [ok |-> is_int32(stk[Len(stk)]),
        val |-> IF is_int32(stk[Len(stk)])
                THEN stk[Len(stk)].v % U32Modulus ELSE 0,
        stack |-> SubSeq(stk, 1, Len(stk) - 1)]

(***************************************************************************)
(* trace_roots: the global object, then every markable value of every      *)
(* stack in STACKS, in the order the loops meet them.                      *)
(***************************************************************************)
RECURSIVE TraceStack(_, _)
TraceStack(c, i) ==
  IF i > Len(stack[c]) THEN << >>
  ELSE (IF is_markable(stack[c][i])
        THEN << [root |-> "value", call |-> c, slot |-> i] >>
        ELSE << >>) \o TraceStack(c, i + 1)

RECURSIVE TraceStacks(_)
TraceStacks(S) ==
  IF S = {} THEN << >>
  ELSE LET c == CHOOSE x \in S : TRUE
       IN TraceStack(c, 1) \o TraceStacks(S \ {c})

\* A tracer that visits the export's stack only.
TracedStacks_host == STACKS \cap {hostCx}

\* The stacks the tracer walks: STACKS.iter().
TracedStacks == STACKS

GlobalRoot == [root |-> "global", call |-> 0, slot |-> 0]

\* The engine may collect whenever it runs: while script runs, and in
\* call_import at each JS_GetElement.
GcPoint ==
  \/ pc = "script"
  \/ pc = "import" /\ imp.pos < Len(imp.args)

trace_roots ==
  /\ GcPoint
  /\ IF GLOBAL_OBJECT
     THEN /\ marked' = << GlobalRoot >> \o TraceStacks(TracedStacks)
          /\ pc' = pc
     ELSE /\ marked' = << >>
          /\ pc' = "aborted"
  /\ last' = [op |-> "trace_roots", abort |-> ~GLOBAL_OBJECT, regOk |-> TRUE,
              dropped |-> 0]
  /\ UNCHANGED << WIT >>
  /\ UNCHANGED << deferred_deallocations, freed >>
  /\ UNCHANGED << made, thr, owner >>
  /\ UNCHANGED << RUNTIME, GLOBAL_OBJECT, STACKS, live, stack,
                  CURRENT_TASK_STATE, taskStates, context, state,
                  waitableSets, cur, nTasks, hostCx, hostFunc, imp, nImports,
                  invoked, regAt >>

(***************************************************************************)
(* with_context: the runtime is made on first use.  make_runtime makes the  *)
(* Runtime, registers trace_roots with it and creates the global object.   *)
(***************************************************************************)
\* A with_context that makes a runtime on every call.
NeedsRuntime_always == TRUE

\* runtime.is_none()
NeedsRuntime == ~RUNTIME

with_context_made ==
  IF NeedsRuntime
  THEN [runtime |-> made.runtime + 1, tracer |-> made.tracer + 1,
        global |-> made.global + 1]
  ELSE made

(***************************************************************************)
(* The script init evaluates.  A text is a sequence of tokens and a token  *)
(* a sequence of characters; a keyword or a fixed identifier is a token of *)
(* one fragment.  WIT names are sequences of characters.                   *)
(***************************************************************************)
\* The interface names of the worlds, in the order of Ord for str (the order
\* in which a BTreeMap yields its keys): "a:b-c/d" < "a:b/c-d".
Interfaces ==
  << << "a", ":", "b", "-", "c", "/", "d" >>,
     << "a", ":", "b", "/", "c", "-", "d" >> >>

FuncNames == { << "f" >>, << "g", "-", "h" >> }
ParamCounts == {0, 2}

\* func.interface(): 0 is None, k is Some(Interfaces[k]).
InterfaceKeys == 0 .. Len(Interfaces)

T(s) == << << s >> >>
Id(name) == << name >>

\* str::replace(from, "_") with a set of characters as the pattern.
Replace(name, from) ==
  [i \in 1 .. Len(name) |-> IF name[i] \in from THEN "_" ELSE name[i]]

Digits == << "0", "1", "2", "3", "4", "5", "6", "7", "8", "9" >>

\* format!("{index}") of a number below ten (positions count from 1 here).
Decimal(n) == << << Digits[n + 1] >> >>

\* collect::<Vec<_>>().join(sep)
RECURSIVE Join(_, _)
Join(texts, sep) ==
  IF Len(texts) = 0 THEN << >>
  ELSE IF Len(texts) = 1 THEN texts[1]
  ELSE texts[1] \o sep \o Join(Tail(texts), sep)

\* (0..func.params().len()).map(|i| format!("p{i}")).join(",")
ImportParams(func) ==
  Join([i \in 1 .. func.params |-> << << "p", Digits[i] >> >>], T(","))

\* The value of an import's entry.  The text of the asynchronous form ends
\* after the arguments of componentize_js_call_import.
ImportValue(index, func) ==
  IF func.is_async
  THEN T("new") \o T("Promise") \o T("(") \o T("(") \o T("a") \o T(",")
         \o T("b") \o T(")") \o T("=>") \o T("componentize_js_call_import")
         \o T("(") \o Decimal(index) \o T(",") \o T("[")
         \o ImportParams(func) \o T("]") \o T(",") \o T("a") \o T(",")
         \o T("b") \o T(")")
  ELSE T("componentize_js_call_import") \o T("(") \o Decimal(index)
         \o T(",") \o T("[") \o ImportParams(func) \o T("]") \o T(")")

\* format!("{name}:function({params}){{return {value}}}")
ImportEntry(index, func) ==
  Id(Replace(func.name, {"-"})) \o T(":") \o T("function") \o T("(")
    \o ImportParams(func) \o T(")") \o T("{") \o T("return")
    \o ImportValue(index, func) \o T("}")

\* imports.entry(func.interface()).or_default().push((index, func)): the
\* positions of the imports of one interface, ascending.
ImportGroup(wit, k) ==
  SelectSeq([i \in 1 .. Len(wit.imports) |-> i],
            LAMBDA i : wit.imports[i].interface = k)

\* One (interface, funcs) pair of the map.
ImportGroupText(wit, k) ==
  LET group == ImportGroup(wit, k)
      funcs == Join([j \in 1 .. Len(group) |->
                       ImportEntry(group[j], wit.imports[group[j]])], T(","))
  IN IF k # 0
     THEN Id(Replace(Interfaces[k], {":", "/", "-"})) \o T(":") \o T("{")
            \o funcs \o T("}")
     ELSE funcs

\* The `imports` string: the pairs of the map in key order, joined by ",".
ImportsText(wit) ==
  LET keys == SelectSeq([k \in 1 .. Len(Interfaces) + 1 |-> k - 1],
                        LAMBDA k : Len(ImportGroup(wit, k)) > 0)
  IN Join([j \in 1 .. Len(keys) |-> ImportGroupText(wit, keys[j])], T(","))

\* format!("{script}\nvar imports = {{{imports}}}\n
\*          var componentize_js_async_exports = {{{imports}}}")
ScriptText(script, imports) ==
  script \o T("\n") \o T("var") \o T("imports") \o T("=") \o T("{")
    \o imports \o T("}") \o T("\n") \o T("var")
    \o T("componentize_js_async_exports") \o T("=") \o T("{")
    \o imports \o T("}")

\* What the engine's parser makes of a text: brackets nest.
Opens == {<< "(" >>, << "[" >>, << "{" >>}
Closes == {<< ")" >>, << "]" >>, << "}" >>}
Closer(tok) ==
  IF tok = << "(" >> THEN << ")" >>
  ELSE IF tok = << "[" >> THEN << "]" >> ELSE << "}" >>

\* The brackets open before position i.
Depth(text, i) ==
  Cardinality({j \in 1 .. i - 1 : text[j] \in Opens})
    - Cardinality({j \in 1 .. i - 1 : text[j] \in Closes})

Brackets(text) == SelectSeq(text, LAMBDA tok : tok \in Opens \cup Closes)

\* Every closing bracket closes the nearest bracket still open, which is of
\* its own kind, and none is left open.
Nests(text) ==
  LET b == Brackets(text)
      d == [i \in 1 .. Len(b) + 1 |-> Depth(b, i)] \o << >>
  IN /\ d[Len(b) + 1] = 0
     /\ \A j \in 1 .. Len(b) :
          b[j] \in Closes =>
            LET open == {i \in 1 .. j - 1 :
                           b[i] \in Opens /\ d[i] = d[j] - 1}
            IN \E i \in open :
                 /\ \A k \in open : k <= i
                 /\ Closer(b[i]) = b[j]

\* Evaluate: FALSE when the text does not parse or a statement of it throws.
Evaluate(text) ==
  /\ Nests(text)
  /\ \A i \in 1 .. Len(text) : text[i] # << "throw" >>

\* The entries `key:value` of an object literal's text, split at the commas
\* outside every bracket.
EntryStarts(text) ==
  IF text = << >> THEN {}
  ELSE {1} \cup {i + 1 : i \in {j \in 1 .. Len(text) - 1 :
                                  text[j] = << "," >> /\ Depth(text, j) = 0}}

EntryEnd(text, s) ==
  LET later == {e \in EntryStarts(text) : e > s}
  IN IF later = {} THEN Len(text)
     ELSE (CHOOSE e \in later : \A d \in later : e <= d) - 2

\* The positions of the entries of an object literal that have a given key.
EntriesFor(text, key) == {s \in EntryStarts(text) : text[s] = key}

\* The value a property has once the object literal is evaluated: the value
\* of the last entry with that key (<< >> when there is none).
Property(text, key) ==
  IF EntriesFor(text, key) = {} THEN << >>
  ELSE LET s == CHOOSE e \in EntriesFor(text, key) :
                  \A d \in EntriesFor(text, key) : d <= e
       IN SubSeq(text, s + 2, EntryEnd(text, s))

\* The text between the braces of an object literal.
Members(value) ==
  IF Len(value) >= 2 /\ value[1] = << "{" >>
  THEN SubSeq(value, 2, Len(value) - 1) ELSE << >>

\* The user scripts: one that evaluates, one that throws, one that does not
\* parse.
UserScripts == { T("0"), T("throw") \o T("0"), T("(") }

\* bindings::Guest::init: init(&script).map_err(..), Err when Evaluate fails.
InitResult_ok(evaluated) == "ok"

InitResult(evaluated) == IF evaluated THEN "ok" ELSE "err"

\* componentize: call_init(..).await?.map_err(..).with_context(..)?
Componentize(result) == IF result = "ok" THEN "ok" ELSE "err"

\* init(script): with_context, in which call_import is installed, the shim
\* is generated and appended to the script, and the whole is evaluated.
init(script) ==
  /\ pc = "idle"
  /\ RUNTIME' = TRUE
  /\ GLOBAL_OBJECT' = (GLOBAL_OBJECT \/ NeedsRuntime)
  /\ made' = with_context_made
  /\ LET imports == ImportsText(WIT)
         evaluated == Evaluate(ScriptText(script, imports))
     IN last' = [op |-> "init", abort |-> FALSE, regOk |-> TRUE,
                 dropped |-> 0, script |-> script, evaluated |-> evaluated,
                 result |-> InitResult(evaluated),
                 componentize |-> Componentize(InitResult(evaluated)),
                 imports |-> imports,
                 componentize_js_async_exports |-> imports]
  /\ marked' = << >>
  /\ UNCHANGED << WIT >>
  /\ UNCHANGED << deferred_deallocations, freed >>
  /\ UNCHANGED << STACKS, live, stack, CURRENT_TASK_STATE, taskStates,
                  context, state, waitableSets, pc, cur, nTasks, hostCx,
                  hostFunc, imp, nImports, invoked, regAt, thr, owner >>

(***************************************************************************)
(* A synchronous export, as the host's glue drives it: export_start, one   *)
(* push per argument, export_call, one pop for the result, drop.           *)
(***************************************************************************)
export_start(f, c) ==
  /\ pc = "idle"
  /\ nTasks < MaxTasks
  /\ c \in FreshCalls
  /\ LET r == StacksInsert(STACKS, c)
     IN /\ STACKS' = r.set
        /\ pc' = IF r.ok THEN "lowering" ELSE "aborted"
        /\ last' = [op |-> "export_start", abort |-> ~r.ok, regOk |-> r.ok,
                    dropped |-> 0, call |-> c]
  /\ regAt' = [regAt EXCEPT ![c] = STACKS]
  /\ live' = live \cup {c}
  /\ stack' = [stack EXCEPT ![c] = << >>]
  /\ hostCx' = c
  /\ hostFunc' = f
  /\ nTasks' = nTasks + 1
  /\ cur' = [task |-> nTasks + 1, kind |-> "start"]
  /\ marked' = << >>
  /\ NewDeferred(c)
  /\ UNCHANGED << WIT >>
  /\ UNCHANGED << made, thr, owner >>
  /\ UNCHANGED << RUNTIME, GLOBAL_OBJECT, CURRENT_TASK_STATE, taskStates,
                  context, state, waitableSets, imp, nImports, invoked >>

push_argument(val) ==
  /\ pc = "lowering"
  /\ Len(stack[hostCx]) < hostFunc.params
  /\ stack' = [stack EXCEPT ![hostCx] = push_u32(@, val)]
  /\ last' = [op |-> "push_u32", abort |-> FALSE, regOk |-> TRUE,
              dropped |-> 0, val |-> val,
              pushed |-> (IF last.op = "push_u32" THEN last.pushed
                          ELSE << >>) \o << val >>]
  /\ marked' = << >>
  /\ UNCHANGED << WIT >>
  /\ UNCHANGED << deferred_deallocations, freed >>
  /\ UNCHANGED << made, thr, owner >>
  /\ UNCHANGED << RUNTIME, GLOBAL_OBJECT, STACKS, live, CURRENT_TASK_STATE,
                  taskStates, context, state, waitableSets, pc, cur, nTasks,
                  hostCx, hostFunc, imp, nImports, invoked, regAt >>

\* A take that hands the values over top of stack first.
TakeParams_reversed(stk) == [i \in 1 .. Len(stk) |-> stk[Len(stk) + 1 - i]]

\* mem::take(stack).into_iter(): the values in the order they were pushed.
TakeParams(stk) == stk

\* export_call_(func, call, false) up to the call of the script function:
\* with_context creates the runtime on first use, the arguments are taken off
\* the stack and handed to the function.
export_call ==
  /\ pc = "lowering"
  /\ Len(stack[hostCx]) = hostFunc.params
  /\ ~hostFunc.is_async
  /\ RUNTIME' = TRUE
  /\ GLOBAL_OBJECT' = (GLOBAL_OBJECT \/ NeedsRuntime)
  /\ stack' = [stack EXCEPT ![hostCx] = << >>]
  /\ pc' = "script"
  /\ cur' = [cur EXCEPT !.kind = "sync"]
  /\ last' = [op |-> "export_call", abort |-> FALSE, regOk |-> TRUE,
              dropped |-> 0, params |-> TakeParams(stack[hostCx]),
              pushed |-> IF last.op = "push_u32" THEN last.pushed ELSE << >>]
  /\ marked' = << >>
  /\ made' = with_context_made
  /\ UNCHANGED << WIT >>
  /\ UNCHANGED << deferred_deallocations, freed >>
  /\ UNCHANGED << thr, owner >>
  /\ UNCHANGED << STACKS, live, CURRENT_TASK_STATE, taskStates, context,
                  state, waitableSets, nTasks, hostCx, hostFunc, imp,
                  nImports, invoked, regAt >>

\* The script function returns rv: export_call_ pushes it when the export
\* declares a result, and export_call returns to the host.
script_return(rv) ==
  /\ pc = "script"
  /\ cur.kind = "sync"
  /\ stack' = [stack EXCEPT ![hostCx] =
                 IF hostFunc.result THEN Append(@, rv) ELSE @]
  /\ pc' = IF hostFunc.result THEN "returned" ELSE "lifted"
  /\ last' = [op |-> "script_return", abort |-> FALSE, regOk |-> TRUE,
              dropped |-> 0, value |-> rv]
  /\ marked' = << >>
  /\ UNCHANGED << WIT >>
  /\ UNCHANGED << deferred_deallocations, freed >>
  /\ UNCHANGED << made, thr, owner >>
  /\ UNCHANGED << RUNTIME, GLOBAL_OBJECT, STACKS, live, CURRENT_TASK_STATE,
                  taskStates, context, state, waitableSets, cur, nTasks,
                  hostCx, hostFunc, imp, nImports, invoked, regAt >>

\* JS_CallFunctionValue reports failure (the script threw): export_call_
\* panics.
script_throw ==
  /\ pc = "script"
  /\ cur.kind \in {"sync", "async"}
  /\ pc' = "aborted"
  /\ last' = [op |-> "script_throw", abort |-> TRUE, regOk |-> TRUE,
              dropped |-> 0]
  /\ marked' = << >>
  /\ UNCHANGED << WIT >>
  /\ UNCHANGED << deferred_deallocations, freed >>
  /\ UNCHANGED << made, thr, owner >>
  /\ UNCHANGED << RUNTIME, GLOBAL_OBJECT, STACKS, live, stack,
                  CURRENT_TASK_STATE, taskStates, context, state,
                  waitableSets, cur, nTasks, hostCx, hostFunc, imp, nImports,
                  invoked, regAt >>

\* The host lifts the export's result with pop_u32.
pop_result ==
  /\ pc = "returned"
  /\ LET r == pop_u32(stack[hostCx])
     IN /\ stack' = [stack EXCEPT ![hostCx] = r.stack]
        /\ pc' = IF r.ok THEN "lifted" ELSE "aborted"
        /\ last' = [op |-> "pop_result", abort |-> ~r.ok, regOk |-> TRUE,
                    dropped |-> 0, val |-> r.val,
                    top |-> stack[hostCx][Len(stack[hostCx])]]
  /\ marked' = << >>
  /\ UNCHANGED << WIT >>
  /\ UNCHANGED << deferred_deallocations, freed >>
  /\ UNCHANGED << made, thr, owner >>
  /\ UNCHANGED << RUNTIME, GLOBAL_OBJECT, STACKS, live, CURRENT_TASK_STATE,
                  taskStates, context, state, waitableSets, cur, nTasks,
                  hostCx, hostFunc, imp, nImports, invoked, regAt >>

\* The host drops the Box<MyCall>: Drop for MyCall.
drop_call ==
  /\ pc = "lifted"
  /\ LET r == StacksRemove(STACKS, hostCx)
     IN /\ STACKS' = r.set
        /\ pc' = IF r.ok THEN "idle" ELSE "aborted"
        /\ last' = [op |-> "drop", abort |-> ~r.ok, regOk |-> r.ok,
                    dropped |-> hostCx]
  /\ live' = live \ {hostCx}
  /\ hostCx' = 0
  /\ hostFunc' = NoFunc
  /\ cur' = NoCur
  /\ marked' = << >>
  /\ DropDeferred(IF pc' = "aborted" THEN {} ELSE {hostCx})
  /\ UNCHANGED << WIT >>
  /\ UNCHANGED << made, thr, owner >>
  /\ UNCHANGED << RUNTIME, GLOBAL_OBJECT, stack, CURRENT_TASK_STATE,
                  taskStates, context, state, waitableSets, nTasks, imp,
                  nImports, invoked, regAt >>

(***************************************************************************)
(* call_import: the native dispatch entry point script calls.              *)
(***************************************************************************)
\* The glue lowers the parameters with one pop_u32 each, the last parameter
\* first; args is what the host import receives, in parameter order.
RECURSIVE Lower(_, _)
Lower(stk, n) ==
  IF n = 0 THEN [ok |-> TRUE, args |-> << >>, stack |-> stk]
  ELSE LET r == pop_u32(stk)
       IN IF ~r.ok THEN [ok |-> FALSE, args |-> << >>, stack |-> r.stack]
          ELSE LET rest == Lower(r.stack, n - 1)
               IN [ok |-> rest.ok,
                   args |-> Append(rest.args, r.val),
                   stack |-> rest.stack]

\* Subtask handles the host has handed out and not yet released.
UsedHandles == UNION {PendingHandles(taskStates[t]) : t \in Tasks}

\* A call_import that accepts an argument array of any length.
ArgCountOk_any(index, args) == TRUE

\* assert_eq!(func.params().len(), length)
ArgCountOk(index, args) == Len(args) = ImportFuncs[index].params

\* Lines 176-206: the argument count is checked and the Call Context made.
call_import_begin(index, args, c) ==
  /\ pc = "script"
  /\ nImports < MaxImportCalls
  /\ index \in 1 .. Len(ImportFuncs)
  /\ c \in FreshCalls
  /\ LET ok == ArgCountOk(index, args)
         r == StacksInsert(STACKS, c)
     IN /\ STACKS' = IF ok THEN r.set ELSE STACKS
        /\ regAt' = IF ok THEN [regAt EXCEPT ![c] = STACKS] ELSE regAt
        /\ live' = IF ok THEN live \cup {c} ELSE live
        /\ stack' = IF ok THEN [stack EXCEPT ![c] = << >>] ELSE stack
        /\ imp' = IF ok
                  THEN [index |-> index, args |-> args, pos |-> 0, call |-> c,
                        promise |-> IF ImportFuncs[index].is_async
                                    THEN nImports + 1 ELSE 0]
                  ELSE NoImp
        /\ pc' = IF ok /\ r.ok THEN "import" ELSE "aborted"
        /\ last' = [op |-> "call_import_begin", abort |-> ~(ok /\ r.ok),
                    regOk |-> ~ok \/ r.ok, dropped |-> 0,
                    call |-> IF ok THEN c ELSE 0, index |-> index,
                    passed |-> args]
  /\ nImports' = nImports + 1
  /\ marked' = << >>
  /\ IF c \in live' THEN NewDeferred(c)
     ELSE UNCHANGED << deferred_deallocations, freed >>
  /\ UNCHANGED << WIT >>
  /\ UNCHANGED << made, thr, owner >>
  /\ UNCHANGED << RUNTIME, GLOBAL_OBJECT, CURRENT_TASK_STATE, taskStates,
                  context, state, waitableSets, cur, nTasks, hostCx, hostFunc,
                  invoked >>

\* Lines 207-217: one turn of the loop, JS_GetElement and push.
call_import_element ==
  /\ pc = "import"
  /\ imp.pos < Len(imp.args)
  /\ stack' = [stack EXCEPT ![imp.call] = Append(@, imp.args[imp.pos + 1])]
  /\ imp' = [imp EXCEPT !.pos = @ + 1]
  /\ last' = [op |-> "call_import_element", abort |-> FALSE,
              regOk |-> TRUE, dropped |-> 0]
  /\ marked' = << >>
  /\ UNCHANGED << WIT >>
  /\ UNCHANGED << deferred_deallocations, freed >>
  /\ UNCHANGED << made, thr, owner >>
  /\ UNCHANGED << RUNTIME, GLOBAL_OBJECT, STACKS, live, CURRENT_TASK_STATE,
                  taskStates, context, state, waitableSets, pc, cur, nTasks,
                  hostCx, hostFunc, nImports, invoked, regAt >>

\* What call_import hands to the resolve callback or returns to script: the
\* value the glue pushed with push_u32(res), popped raw.
LiftedValue(stk, res) == push_u32(stk, res)[Len(stk) + 1]

\* The entry call_import registers for a subtask that is still running.
PendingInsert(ts, h) ==
  [ts EXCEPT !.pending[h] =
     [index |-> imp.index, call |-> imp.call, promise |-> imp.promise]]

\* A call_import that leaks its Call Context.
CallDroppedOnReturn_never(subtask) == FALSE

\* Whether call_import's `call` is dropped when call_import returns: not when
\* it was moved into a pending entry.
CallDroppedOnReturn(subtask) == subtask = 0

\* Lines 219-270: the host import is called.  subtask = 0: the call
\* completed (a synchronous import always does) with result res; otherwise
\* the host started the subtask with that handle.
call_import_dispatch(subtask, res) ==
  /\ pc = "import"
  /\ imp.pos = Len(imp.args)
  /\ subtask \in {0} \cup (Handles \ UsedHandles)
  /\ ImportFuncs[imp.index].is_async \/ subtask = 0
  /\ LET f == ImportFuncs[imp.index]
         c == imp.call
         lo == Lower(stack[c], f.params)
         rv == IF f.result THEN LiftedValue(lo.stack, res) ELSE UndefinedValue
         rm == StacksRemove(STACKS, c)
         noState == subtask # 0 /\ CURRENT_TASK_STATE = 0
         dropped == lo.ok /\ CallDroppedOnReturn(subtask)
         abort == ~lo.ok \/ noState \/ (dropped /\ ~rm.ok)
     IN /\ stack' = [stack EXCEPT ![c] = lo.stack]
        /\ taskStates' =
             IF lo.ok /\ subtask # 0 /\ ~noState
             THEN [taskStates EXCEPT ![CURRENT_TASK_STATE] =
                     PendingInsert(@, subtask)]
             ELSE taskStates
        /\ invoked' =
             IF lo.ok /\ subtask = 0 /\ f.is_async
             THEN Append(invoked,
                         [fn |-> "resolve", promise |-> imp.promise,
                          value |-> rv])
             ELSE invoked
        /\ STACKS' = IF dropped THEN rm.set ELSE STACKS
        /\ live' = IF dropped THEN live \ {c} ELSE live
        /\ pc' = IF abort THEN "aborted" ELSE "script"
        /\ last' = [op |-> "call_import", abort |-> abort,
                    regOk |-> ~dropped \/ rm.ok,
                    dropped |-> IF dropped THEN c ELSE 0,
                    index |-> imp.index, is_async |-> f.is_async,
                    subtask |-> subtask, call |-> c, promise |-> imp.promise,
                    passed |-> imp.args, lowered |-> lo.ok,
                    received |-> lo.args, result |-> res, rval |-> rv]
  /\ imp' = NoImp
  /\ marked' = << >>
  /\ DropDeferred((live \ live') \cap STACKS)
  /\ UNCHANGED << WIT >>
  /\ UNCHANGED << made, thr, owner >>
  /\ UNCHANGED << RUNTIME, GLOBAL_OBJECT, CURRENT_TASK_STATE, context, state,
                  waitableSets, cur, nTasks, hostCx, hostFunc, nImports,
                  regAt >>

(***************************************************************************)
(* An asynchronous export: export_async_start, poll, and the host's        *)
(* export_async_callback.                                                  *)
(***************************************************************************)
\* The Call Contexts captured in the pending entries of Task State s.
ParkedCalls(s) ==
  {taskStates[s].pending[h].call : h \in PendingHandles(taskStates[s])}

\* export_call_(func, call, true) up to the call of the script function: a new
\* Task State becomes the current one (a Task State it replaces is dropped,
\* and with it the Call Contexts its entries hold).
export_async_start ==
  /\ pc = "lowering"
  /\ Len(stack[hostCx]) = hostFunc.params
  /\ hostFunc.is_async
  /\ LET old == CURRENT_TASK_STATE
         gone == IF old = 0 THEN {} ELSE ParkedCalls(old)
     IN /\ taskStates' =
             [t \in Tasks |->
                IF t = cur.task THEN TaskState_new
                ELSE IF t = old THEN NoTaskState
                ELSE taskStates[t]]
        /\ STACKS' = STACKS \ gone
        /\ live' = live \ gone
        /\ pc' = IF gone \subseteq STACKS THEN "script" ELSE "aborted"
        /\ last' = [op |-> "export_async_start",
                    abort |-> ~(gone \subseteq STACKS),
                    regOk |-> gone \subseteq STACKS, dropped |-> 0,
                    params |-> TakeParams(stack[hostCx])]
  /\ CURRENT_TASK_STATE' = cur.task
  /\ RUNTIME' = TRUE
  /\ GLOBAL_OBJECT' = (GLOBAL_OBJECT \/ NeedsRuntime)
  /\ stack' = [stack EXCEPT ![hostCx] = << >>]
  /\ cur' = [cur EXCEPT !.kind = "async"]
  /\ marked' = << >>
  /\ made' = with_context_made
  /\ DropDeferred((live \ live') \cap STACKS)
  /\ UNCHANGED << WIT >>
  /\ UNCHANGED << thr, owner >>
  /\ UNCHANGED << context, state, waitableSets, nTasks, hostCx, hostFunc, imp,
                  nImports, invoked, regAt >>

\* A poll that does not look at the pending map.
PollCode_wait(s) ==
  IF s = 0 THEN "none"
  ELSE IF taskStates[s].waitable_set = 0 THEN "unwrap"
  ELSE "wait"

\* poll, after RunJobs has drained the job queue: what it reports.
\*   "none"    CURRENT_TASK_STATE.take().unwrap() finds None: panic
\*   "exit"    CALLBACK_CODE_EXIT
\*   "unwrap"  state.waitable_set.unwrap() finds None: panic
\*   "wait"    CALLBACK_CODE_WAIT | (set << 4)
PollCode(s) ==
  IF s = 0 THEN "none"
  ELSE IF PendingHandles(taskStates[s]) = {} THEN "exit"
  ELSE IF taskStates[s].waitable_set = 0 THEN "unwrap"
  ELSE "wait"

\* The waitable sets left at the host after poll.
PollWaitableSets(s) ==
  IF PollCode(s) = "exit"
  THEN waitableSets \ {taskStates[s].waitable_set}
  ELSE waitableSets

\* What poll leaves behind the task's context pointer.
PollContext(s, t) ==
  IF PollCode(s) = "wait" THEN [context EXCEPT ![t] = s] ELSE context

\* poll in task t: the current Task State is taken; on exit its waitable set
\* is dropped and the Task State destroyed, on wait it is stashed.
poll(t) ==
  LET s == CURRENT_TASK_STATE
  IN /\ CURRENT_TASK_STATE' = 0
     /\ waitableSets' = PollWaitableSets(s)
     /\ context' = PollContext(s, t)
     /\ taskStates' =
          IF PollCode(s) = "exit"
          THEN [taskStates EXCEPT ![s] = NoTaskState]
          ELSE taskStates

PollAborts(s) == PollCode(s) \in {"none", "unwrap"}

\* The job queue is drained: poll reports, and export_async_start drops the
\* export's Call Context and returns the code to the host.
export_async_return ==
  /\ pc = "script"
  /\ cur.kind = "async"
  /\ poll(cur.task)
  /\ LET s == CURRENT_TASK_STATE
         rm == StacksRemove(STACKS, hostCx)
         abort == PollAborts(s) \/ ~rm.ok
     IN /\ STACKS' = IF PollAborts(s) THEN STACKS ELSE rm.set
        /\ live' = IF PollAborts(s) THEN live ELSE live \ {hostCx}
        /\ hostCx' = IF PollAborts(s) THEN hostCx ELSE 0
        /\ pc' = IF abort THEN "aborted" ELSE "idle"
        /\ cur' = IF abort THEN cur ELSE NoCur
        /\ last' = [op |-> "poll", abort |-> abort, code |-> PollCode(s),
                    regOk |-> PollAborts(s) \/ rm.ok,
                    dropped |-> IF PollAborts(s) THEN 0 ELSE hostCx,
                    from |-> "start", task |-> cur.task, ts |-> s,
                    own |-> IF s = 0 THEN {}
                            ELSE PendingHandles(taskStates[s]),
                    set |-> IF s = 0 THEN 0 ELSE taskStates[s].waitable_set]
  /\ hostFunc' = IF PollAborts(CURRENT_TASK_STATE) THEN hostFunc ELSE NoFunc
  /\ marked' = << >>
  /\ DropDeferred((live \ live') \cap STACKS)
  /\ UNCHANGED << WIT >>
  /\ UNCHANGED << made, thr, owner >>
  /\ UNCHANGED << RUNTIME, GLOBAL_OBJECT, stack, state, nTasks, imp, nImports,
                  invoked, regAt >>

\* An event match in which only STARTED and RETURNED subtask events are
\* accepted.
EventAction_strict(event0, event2) ==
  IF event0 = "subtask" /\ event2 = "started" THEN "ack"
  ELSE IF event0 = "subtask" /\ event2 = "returned" THEN "settle"
  ELSE "fatal"

\* What export_async_callback does with an event before it polls:
\*   "ack"      nothing (EVENT_NONE, or a subtask in phase STARTED)
\*   "settle"   a subtask RETURNED
\*   "fatal"    unreachable!() or todo!()
EventAction(event0, event2) ==
  IF event0 = "none" THEN "ack"
  ELSE IF event0 = "subtask"
       THEN (IF event2 = "started" THEN "ack"
             ELSE IF event2 = "returned" THEN "settle"
             ELSE "fatal")
       ELSE "fatal"

\* The callback invoked for a settled subtask.
SettleCallback(entry, val) ==
  [fn |-> "resolve", promise |-> entry.promise, value |-> val]

\* A RETURNED event that leaves the entry in the map.
PendingRemove_keeps(ts, h) == ts

\* The pending map once the RETURNED event of subtask h is processed.
PendingRemove(ts, h) == [ts EXCEPT !.pending[h] = NoEntry]

\* The steps of the RETURNED arm, in the order the code takes them:
\* waitable_join, subtask_drop, lift_import_async_result, pending.remove,
\* JS_CallFunctionValue.
ReturnedSteps ==
  << "waitable_join", "subtask_drop", "lift", "remove", "callback" >>

\* A RETURNED arm that invokes the callback before it removes the entry.
PendingAtCallback_kept(ts, h) == PendingHandles(ts)

\* The handles with a pending entry at the moment the RETURNED arm invokes
\* the callback: the entry of h has been removed by then.
PendingAtCallback(ts, h) == PendingHandles(PendingRemove(ts, h))

\* export_async_callback(event0, event1, event2) in task t, up to the job
\* queue run of its poll.  res is the import's result in the buffer, err
\* tells whether it is an error result.
export_async_callback(t, event0, event1, event2, res, err) ==
  /\ pc = "idle"
  /\ context[t] # 0
  /\ LET s == context[t]
         ts == taskStates[s]
         entry == ts.pending[event1]
         what == EventAction(event0, event2)
         missing == what = "settle" /\ entry = NoEntry
         settle == what = "settle" /\ ~missing
         c == entry.call
         lifted == push_u32(stack[c], res)
         long == settle /\ ~(Len(lifted) < 2)
         done == settle /\ ~long
         rv == IF ImportFuncs[entry.index].result
               THEN lifted[Len(lifted)] ELSE UndefinedValue
         rm == StacksRemove(STACKS, c)
         abort == what = "fatal" \/ missing \/ long \/ (done /\ ~rm.ok)
     IN /\ state' = s
        /\ stack' = IF settle
                    THEN [stack EXCEPT ![c] =
                            IF done /\ ImportFuncs[entry.index].result
                            THEN SubSeq(lifted, 1, Len(lifted) - 1)
                            ELSE lifted]
                    ELSE stack
        /\ taskStates' = IF done
                         THEN [taskStates EXCEPT ![s] = PendingRemove(@, event1)]
                         ELSE taskStates
        /\ invoked' = IF done THEN Append(invoked, SettleCallback(entry, rv))
                      ELSE invoked
        /\ STACKS' = IF done THEN rm.set ELSE STACKS
        /\ live' = IF done THEN live \ {c} ELSE live
        /\ pc' = IF abort THEN "aborted" ELSE "script"
        /\ last' = [op |-> "export_async_callback", abort |-> abort,
                    regOk |-> ~done \/ rm.ok,
                    dropped |-> IF done THEN c ELSE 0,
                    task |-> t, ts |-> s, event0 |-> event0,
                    event1 |-> event1, event2 |-> event2, what |-> what,
                    entry |-> entry, settled |-> done, result |-> res,
                    err |-> err,
                    steps |-> SubSeq(ReturnedSteps, 1,
                                     IF done THEN 5 ELSE IF long THEN 3
                                     ELSE IF missing THEN 2 ELSE 0),
                    atInvoke |-> IF done THEN PendingAtCallback(ts, event1)
                                 ELSE {}]
  /\ cur' = [task |-> t, kind |-> "callback"]
  /\ RUNTIME' = TRUE
  /\ GLOBAL_OBJECT' = (GLOBAL_OBJECT \/ NeedsRuntime)
  /\ marked' = << >>
  /\ made' = with_context_made
  /\ DropDeferred((live \ live') \cap STACKS)
  /\ UNCHANGED << WIT >>
  /\ UNCHANGED << thr, owner >>
  /\ UNCHANGED << CURRENT_TASK_STATE, context, waitableSets, nTasks, hostCx,
                  hostFunc, imp, nImports, regAt >>

\* The job queue is drained: with_context(poll) reports; on return the
\* local `state` is dropped, and with it the Call Contexts its entries hold.
export_async_callback_return ==
  /\ pc = "script"
  /\ cur.kind = "callback"
  /\ poll(cur.task)
  /\ LET s == CURRENT_TASK_STATE
         gone == IF PollAborts(s) THEN {} ELSE ParkedCalls(state)
         abort == PollAborts(s) \/ ~(gone \subseteq STACKS)
     IN /\ STACKS' = STACKS \ gone
        /\ live' = live \ gone
        /\ state' = IF PollAborts(s) THEN state ELSE 0
        /\ pc' = IF abort THEN "aborted" ELSE "idle"
        /\ cur' = IF abort THEN cur ELSE NoCur
        /\ last' = [op |-> "poll", abort |-> abort, code |-> PollCode(s),
                    regOk |-> gone \subseteq STACKS, dropped |-> 0,
                    from |-> "callback", task |-> cur.task, ts |-> s,
                    own |-> PendingHandles(taskStates[state]),
                    set |-> IF s = 0 THEN 0 ELSE taskStates[s].waitable_set]
  /\ marked' = << >>
  /\ DropDeferred((live \ live') \cap STACKS)
  /\ UNCHANGED << WIT >>
  /\ UNCHANGED << made, thr, owner >>
  /\ UNCHANGED << RUNTIME, GLOBAL_OBJECT, stack, nTasks, hostCx, hostFunc,
                  imp, nImports, invoked, regAt >>

(***************************************************************************)
(* The Call trait driven directly: push_u32 and pop_u32 in any order on    *)
(* one Call Context (SpecU32).                                             *)
(***************************************************************************)
MaxStack == 3

api_push_u32(val) ==
  /\ pc = "api"
  /\ Len(stack[hostCx]) < MaxStack
  /\ stack' = [stack EXCEPT ![hostCx] = push_u32(@, val)]
  /\ last' = [op |-> "push_u32", abort |-> FALSE, regOk |-> TRUE,
              dropped |-> 0, val |-> val, before |-> stack[hostCx]]
  /\ UNCHANGED << WIT >>
  /\ UNCHANGED << deferred_deallocations, freed >>
  /\ UNCHANGED << made, thr, owner >>
  /\ UNCHANGED << RUNTIME, GLOBAL_OBJECT, STACKS, live, CURRENT_TASK_STATE,
                  taskStates, context, state, waitableSets, pc, cur, nTasks,
                  hostCx, hostFunc, imp, nImports, invoked, regAt, marked >>

api_pop_u32 ==
  /\ pc = "api"
  /\ LET r == pop_u32(stack[hostCx])
     IN /\ stack' = [stack EXCEPT ![hostCx] = r.stack]
        /\ pc' = IF r.ok THEN "api" ELSE "aborted"
        /\ last' = [op |-> "pop_u32", abort |-> ~r.ok, regOk |-> TRUE,
                    dropped |-> 0, val |-> r.val,
                    depth |-> Len(stack[hostCx]),
                    top |-> IF Len(stack[hostCx]) = 0 THEN UndefinedValue
                            ELSE stack[hostCx][Len(stack[hostCx])],
                    prev |-> [op |-> last.op,
                              val |-> IF last.op = "push_u32"
                                      THEN last.val ELSE 0,
                              before |-> IF last.op = "push_u32"
                                         THEN last.before ELSE << >>]]
  /\ UNCHANGED << WIT >>
  /\ UNCHANGED << deferred_deallocations, freed >>
  /\ UNCHANGED << made, thr, owner >>
  /\ UNCHANGED << RUNTIME, GLOBAL_OBJECT, STACKS, live, CURRENT_TASK_STATE,
                  taskStates, context, state, waitableSets, cur, nTasks,
                  hostCx, hostFunc, imp, nImports, invoked, regAt, marked >>

\* The pop functions of the other kinds: each body is todo!().
PopKinds == {"bool", "s32", "string"}

api_pop_todo(kind) ==
  /\ pc = "api"
  /\ pc' = "aborted"
  /\ last' = [op |-> "pop_todo", abort |-> TRUE, regOk |-> TRUE,
              dropped |-> 0, kind |-> kind, depth |-> Len(stack[hostCx]),
              top |-> IF Len(stack[hostCx]) = 0 THEN UndefinedValue
                      ELSE stack[hostCx][Len(stack[hostCx])]]
  /\ UNCHANGED << WIT >>
  /\ UNCHANGED << deferred_deallocations, freed >>
  /\ UNCHANGED << made, thr, owner >>
  /\ UNCHANGED << RUNTIME, GLOBAL_OBJECT, STACKS, live, stack,
                  CURRENT_TASK_STATE, taskStates, context, state,
                  waitableSets, cur, nTasks, hostCx, hostFunc, imp, nImports,
                  invoked, regAt, marked >>

\* defer_deallocate(ptr, layout) with a buffer the caller has just allocated.
api_defer_deallocate(buf) ==
  /\ pc = "api"
  /\ freed[buf] = 0
  /\ \A c \in CallIds : \A i \in 1 .. Len(deferred_deallocations[c]) :
       deferred_deallocations[c][i] # buf
  /\ deferred_deallocations' =
       [deferred_deallocations EXCEPT ![hostCx] = Append(@, buf)]
  /\ last' = [op |-> "defer_deallocate", abort |-> FALSE, regOk |-> TRUE,
              dropped |-> 0, buf |-> buf]
  /\ UNCHANGED freed
  /\ UNCHANGED << WIT >>
  /\ UNCHANGED << made, thr, owner >>
  /\ UNCHANGED << RUNTIME, GLOBAL_OBJECT, STACKS, live, stack,
                  CURRENT_TASK_STATE, taskStates, context, state,
                  waitableSets, pc, cur, nTasks, hostCx, hostFunc, imp,
                  nImports, invoked, regAt, marked >>

\* The Box<MyCall> is dropped: Drop for MyCall.
api_drop ==
  /\ pc = "api"
  /\ LET r == StacksRemove(STACKS, hostCx)
     IN /\ STACKS' = r.set
        /\ pc' = IF r.ok THEN "dropped" ELSE "aborted"
        /\ last' = [op |-> "drop", abort |-> ~r.ok, regOk |-> r.ok,
                    dropped |-> hostCx,
                    deferred |-> deferred_deallocations[hostCx]]
  /\ live' = live \ {hostCx}
  /\ DropDeferred(IF pc' = "aborted" THEN {} ELSE {hostCx})
  /\ UNCHANGED << WIT >>
  /\ UNCHANGED << made, thr, owner >>
  /\ UNCHANGED << RUNTIME, GLOBAL_OBJECT, stack, CURRENT_TASK_STATE,
                  taskStates, context, state, waitableSets, cur, nTasks,
                  hostCx, hostFunc, imp, nImports, invoked, regAt, marked >>

\* The values a stack can hold: what push_u32 and script put there.
StackValues == {UInt32Value(u) : u \in U32Samples} \cup ScriptValues

InitApi ==
  /\ RUNTIME = TRUE
  /\ GLOBAL_OBJECT = TRUE
  /\ STACKS = {1}
  /\ live = {1}
  /\ \E content \in UNION {[1 .. n -> StackValues] : n \in 0 .. 1} :
       stack = [c \in CallIds |-> IF c = 1 THEN content ELSE << >>]
  /\ CURRENT_TASK_STATE = 0
  /\ taskStates = [t \in Tasks |-> NoTaskState]
  /\ context = [t \in Tasks |-> 0]
  /\ state = 0
  /\ waitableSets = {}
  /\ pc = "api"
  /\ cur = NoCur
  /\ nTasks = 0
  /\ hostCx = 1
  /\ hostFunc = NoFunc
  /\ imp = NoImp
  /\ nImports = 0
  /\ invoked = << >>
  /\ regAt = [c \in CallIds |-> {}]
  /\ marked = << >>
  /\ made = OneRuntime
  /\ thr = [t \in Threads |-> IdleThread]
  /\ owner = [l \in Locks |-> 0]
  /\ deferred_deallocations = [c \in CallIds |-> << >>]
  /\ freed = [b \in Buffers |-> 0]
  /\ WIT = TestWorld
  /\ last = [op |-> "new", abort |-> FALSE, regOk |-> TRUE, dropped |-> 0]

NextApi ==
  \/ \E val \in U32Samples : api_push_u32(val)
  \/ api_pop_u32
  \/ \E kind \in PopKinds : api_pop_todo(kind)
  \/ \E buf \in Buffers : api_defer_deallocate(buf)
  \/ api_drop

SpecU32 == InitApi /\ [][NextApi]_vars

(***************************************************************************)
(* init on the instance of any small world (SpecShim).                     *)
(***************************************************************************)
MaxImports == 2

ImportDecls ==
  [interface : InterfaceKeys, name : FuncNames, params : ParamCounts,
   is_async : BOOLEAN]

ExportDecls == [interface : {0}, name : FuncNames, params : {1}]

\* A world names each function once per interface.
Worlds ==
  {w \in [imports : UNION {[1 .. n -> ImportDecls] : n \in 0 .. MaxImports},
          exports : UNION {[1 .. n -> ExportDecls] : n \in 0 .. 1}] :
     \A i, j \in 1 .. Len(w.imports) :
       (/\ w.imports[i].interface = w.imports[j].interface
        /\ w.imports[i].name = w.imports[j].name) => i = j}

InitShim ==
  /\ RUNTIME = FALSE
  /\ GLOBAL_OBJECT = FALSE
  /\ STACKS = {}
  /\ live = {}
  /\ stack = [c \in CallIds |-> << >>]
  /\ CURRENT_TASK_STATE = 0
  /\ taskStates = [t \in Tasks |-> NoTaskState]
  /\ context = [t \in Tasks |-> 0]
  /\ state = 0
  /\ waitableSets = {}
  /\ pc = "idle"
  /\ cur = NoCur
  /\ nTasks = 0
  /\ hostCx = 0
  /\ hostFunc = NoFunc
  /\ imp = NoImp
  /\ nImports = 0
  /\ invoked = << >>
  /\ regAt = [c \in CallIds |-> {}]
  /\ marked = << >>
  /\ made = NoRuntime
  /\ thr = [t \in Threads |-> IdleThread]
  /\ owner = [l \in Locks |-> 0]
  /\ deferred_deallocations = [c \in CallIds |-> << >>]
  /\ freed = [b \in Buffers |-> 0]
  /\ WIT \in Worlds
  /\ last = [op |-> "new", abort |-> FALSE, regOk |-> TRUE, dropped |-> 0]

NextShim == \E script \in UserScripts : init(script)

SpecShim == InitShim /\ [][NextShim]_vars

(***************************************************************************)
(* The instance from instantiation on (Spec).                              *)
(***************************************************************************)
ScriptArgs == UNION {[1 .. n -> ScriptValues] : n \in 1 .. 2}

Next ==
  \/ \E f \in ExportFuncs, c \in CallIds : export_start(f, c)
  \/ \E val \in U32Samples : push_argument(val)
  \/ export_call
  \/ \E rv \in ScriptValues : script_return(rv)
  \/ script_throw
  \/ pop_result
  \/ drop_call
  \/ \E index \in 1 .. Len(ImportFuncs), args \in ScriptArgs, c \in CallIds :
       call_import_begin(index, args, c)
  \/ call_import_element
  \/ \E subtask \in {0} \cup Handles, res \in U32Samples :
       call_import_dispatch(subtask, res)
  \/ export_async_start
  \/ export_async_return
  \/ trace_roots
  \/ \E script \in UserScripts : init(script)

Spec == Init /\ [][Next]_vars

(***************************************************************************)
(* The instance as the host finds it when it resumes a suspended task      *)
(* (SpecResume): task 1 reported wait with the subtasks in P pending, each *)
(* entry holding the Call Context of its import call, its parameters       *)
(* lowered.                                                                *)
(***************************************************************************)
SuspendedEntry(h) ==
  [index |-> 2, call |-> h, promise |-> MaxImportCalls + h]

InitSuspended ==
  /\ RUNTIME = TRUE
  /\ GLOBAL_OBJECT = TRUE
  /\ \E P \in SUBSET (Handles \cap CallIds) :
       /\ P # {}
       /\ STACKS = P
       /\ live = P
       /\ taskStates =
            [t \in Tasks |->
               IF t = 1
               THEN [pending |-> [h \in Handles |->
                                    IF h \in P THEN SuspendedEntry(h)
                                    ELSE NoEntry],
                     waitable_set |-> 1, alive |-> TRUE]
               ELSE NoTaskState]
  /\ stack = [c \in CallIds |-> << >>]
  /\ CURRENT_TASK_STATE = 0
  /\ context = [t \in Tasks |-> IF t = 1 THEN 1 ELSE 0]
  /\ state = 0
  /\ waitableSets = {1}
  /\ pc = "idle"
  /\ cur = NoCur
  /\ nTasks = 1
  /\ hostCx = 0
  /\ hostFunc = NoFunc
  /\ imp = NoImp
  /\ nImports = 0
  /\ invoked = << >>
  /\ regAt = [c \in CallIds |-> {}]
  /\ marked = << >>
  /\ made = OneRuntime
  /\ thr = [t \in Threads |-> IdleThread]
  /\ owner = [l \in Locks |-> 0]
  /\ deferred_deallocations = [c \in CallIds |-> << >>]
  /\ freed = [b \in Buffers |-> 0]
  /\ WIT = TestWorld
  /\ last = [op |-> "new", abort |-> FALSE, regOk |-> TRUE, dropped |-> 0]

Events0 == {"none", "subtask", "other"}
Events2 == {"starting", "started", "returned", "other"}

NextResume ==
  \/ Next
  \/ \E t \in Tasks, event0 \in Events0, event1 \in Handles,
        event2 \in Events2, res \in U32Samples, err \in BOOLEAN :
       export_async_callback(t, event0, event1, event2, res, err)
  \/ export_async_callback_return

SpecResume == InitSuspended /\ [][NextResume]_vars

(***************************************************************************)
(* The instance called from several native threads (SpecThreads).  Each     *)
(* thread makes the calls of one export in turn: export_start, push_u32,   *)
(* export_call or export_async_start, pop_u32, drop.  A call is the        *)
(* sequence of its lock operations, in the order the code performs them; a *)
(* step takes one.  Thread t's Call Context is t, and so is its task.      *)
(*   try      Mutex::try_lock().unwrap(): panics when the lock is held     *)
(*   lock     Mutex::lock(): waits until the lock is free                  *)
(*   release  the guard is dropped, after what was done under it (eff)     *)
(*   make     make_runtime is entered when the runtime is not there: the   *)
(*            engine and the Runtime are made, trace_roots is registered   *)
(*   new_global  JS_NewGlobalObject runs; the engine may collect           *)
(*   made     make_runtime has returned; the Runtime is stored in RUNTIME  *)
(*   script   the engine runs script; it may collect (trace_roots)         *)
(*   trace    trace_roots locks each registered stack in turn              *)
(*   ret      the call returns to the host                                 *)
(***************************************************************************)
Op(k, l, eff) == [k |-> k, l |-> l, eff |-> eff]
Try(l) == Op("try", l, "none")
Release(l, eff) == Op("release", l, eff)

\* MyCall::new: STACKS.try_lock().unwrap().insert(..)
ExportStartProg(t) ==
  << Try(StaticLock("STACKS")), Release(StaticLock("STACKS"), "insert"),
     Op("ret", NoLock, "none") >>

\* push_u32: self.stack.try_lock().unwrap().push(..)
PushProg(t) ==
  << Try(StackLock(t)), Release(StackLock(t), "push"),
     Op("ret", NoLock, "none") >>

\* pop_u32: self.stack.try_lock().unwrap().pop()
PopProg(t) ==
  << Try(StackLock(t)), Release(StackLock(t), "pop"),
     Op("ret", NoLock, "none") >>

\* Drop for MyCall: STACKS.try_lock().unwrap().remove(..)
DropSteps ==
  << Try(StaticLock("STACKS")), Release(StaticLock("STACKS"), "remove") >>

\* A with_context that keeps the GLOBAL_OBJECT guard over its closure.
WithContextEnter_guard_kept ==
  << Op("lock", StaticLock("RUNTIME"), "none"),
     Op("make", NoLock, "none"),
     Try(StaticLock("GLOBAL_OBJECT")) >>

\* with_context up to the call of its closure: RUNTIME.lock(), make_runtime
\* when needed, GLOBAL_OBJECT.try_lock() for the realm's global.
WithContextEnter ==
  << Op("lock", StaticLock("RUNTIME"), "none"),
     Op("make", NoLock, "none"),
     Try(StaticLock("GLOBAL_OBJECT")),
     Release(StaticLock("GLOBAL_OBJECT"), "read_global") >>

\* make_runtime after the registration of trace_roots: the principals and
\* the class are set up and JS_NewGlobalObject is called (the right operand
\* of the assignment is evaluated first), then GLOBAL_OBJECT.try_lock() and
\* the store of the new global; with_context stores the Runtime.
make_runtime ==
  << Op("new_global", NoLock, "none"),
     Try(StaticLock("GLOBAL_OBJECT")),
     Release(StaticLock("GLOBAL_OBJECT"), "set_global"),
     Op("made", NoLock, "none") >>

\* A with_context whose RUNTIME guard outlives the call.
WithContextExit_held == << >>

\* with_context returns: the RUNTIME guard goes out of scope.
WithContextExit == << Release(StaticLock("RUNTIME"), "exit_realm") >>

\* export_call_: for an asynchronous export the new Task State is stored
\* before with_context; inside, the parameters are taken off the stack, the
\* function is called, then poll (async) or the push of the result (sync).
\* export_async_start owns the Call Context and drops it on return.
ExportCallProg(t, is_async) ==
  (IF is_async
   THEN << Try(StaticLock("CURRENT_TASK_STATE")),
           Release(StaticLock("CURRENT_TASK_STATE"), "new_task") >>
   ELSE << >>)
  \o WithContextEnter
  \o << Try(StackLock(t)), Release(StackLock(t), "take"),
        Op("script", NoLock, "none") >>
  \o (IF is_async
      THEN << Try(StaticLock("CURRENT_TASK_STATE")),
              Release(StaticLock("CURRENT_TASK_STATE"), "poll") >>
      ELSE << Try(StackLock(t)), Release(StackLock(t), "result") >>)
  \o WithContextExit
  \o (IF is_async THEN DropSteps ELSE << >>)
  \o << Op("ret", NoLock, "none") >>

\* trace_roots: GLOBAL_OBJECT.try_lock() and as_mut().unwrap() for the
\* global, then STACKS.try_lock() held over the loop that locks each stack.
TraceProg ==
  << Try(StaticLock("GLOBAL_OBJECT")),
     Release(StaticLock("GLOBAL_OBJECT"), "read_global"),
     Try(StaticLock("STACKS")),
     Op("trace", NoLock, "none"),
     Release(StaticLock("STACKS"), "none") >>

\* The calls a thread makes, in order.
HostCall(t, phase, is_async) ==
  CASE phase = "new" -> ExportStartProg(t)
    [] phase = "started" -> PushProg(t)
    [] phase = "lowered" -> ExportCallProg(t, is_async)
    [] phase = "called" -> PopProg(t)
    [] OTHER -> DropSteps \o << Op("ret", NoLock, "none") >>

NextPhase(phase, is_async) ==
  CASE phase = "new" -> "started"
    [] phase = "started" -> "lowered"
    [] phase = "lowered" -> (IF is_async THEN "done" ELSE "called")
    [] phase = "called" -> "lifted"
    [] OTHER -> "done"

ThreadStep ==
  [op |-> "thread", abort |-> FALSE, regOk |-> TRUE, dropped |-> 0,
   thread |-> 0, lock |-> NoLock, why |-> "none"]

ThreadAbort(t, l, why) ==
  [op |-> "thread", abort |-> TRUE, regOk |-> TRUE, dropped |-> 0,
   thread |-> t, lock |-> l, why |-> why]

AtOp(t, k) == thr[t].prog # << >> /\ Head(thr[t].prog).k = k

Advance(t) == [thr EXCEPT ![t].prog = Tail(@)]

\* The host calls into the instance on thread t.
thread_call(t, is_async) ==
  /\ pc = "threads"
  /\ thr[t].prog = << >>
  /\ thr[t].phase # "done"
  /\ thr[t].phase = "new" \/ is_async = thr[t].is_async
  /\ thr' = [thr EXCEPT ![t] =
               [@ EXCEPT !.prog = HostCall(t, thr[t].phase, is_async),
                         !.phase = NextPhase(thr[t].phase, is_async),
                         !.is_async = is_async]]
  /\ last' = ThreadStep
  /\ UNCHANGED << WIT >>
  /\ UNCHANGED << deferred_deallocations, freed >>
  /\ UNCHANGED << RUNTIME, GLOBAL_OBJECT, STACKS, live, stack,
                  CURRENT_TASK_STATE, taskStates, context, state,
                  waitableSets, pc, cur, nTasks, hostCx, hostFunc, imp,
                  nImports, invoked, regAt, marked, made, owner >>

\* Mutex::try_lock().unwrap()
thread_try(t) ==
  /\ pc = "threads"
  /\ AtOp(t, "try")
  /\ LET l == Head(thr[t].prog).l
     IN IF owner[l] = 0
        THEN /\ owner' = [owner EXCEPT ![l] = t]
             /\ thr' = Advance(t)
             /\ pc' = pc
             /\ last' = ThreadStep
        ELSE /\ pc' = "aborted"
             /\ last' = ThreadAbort(t, l, "contended")
             /\ UNCHANGED << owner, thr >>
  /\ UNCHANGED << WIT >>
  /\ UNCHANGED << deferred_deallocations, freed >>
  /\ UNCHANGED << RUNTIME, GLOBAL_OBJECT, STACKS, live, stack,
                  CURRENT_TASK_STATE, taskStates, context, state,
                  waitableSets, cur, nTasks, hostCx, hostFunc, imp,
                  nImports, invoked, regAt, marked, made >>

\* A Mutex::lock() that does not wait.
LockFree_always(l) == TRUE

\* Mutex::lock() returns only when no thread holds the lock.
LockFree(l) == owner[l] = 0

\* RUNTIME.lock().unwrap(): the thread is inside with_context from here on.
thread_lock(t) ==
  /\ pc = "threads"
  /\ AtOp(t, "lock")
  /\ LockFree(Head(thr[t].prog).l)
  /\ owner' = [owner EXCEPT ![Head(thr[t].prog).l] = t]
  /\ thr' = [thr EXCEPT ![t] = [@ EXCEPT !.prog = Tail(@), !.realm = TRUE]]
  /\ last' = ThreadStep
  /\ UNCHANGED << WIT >>
  /\ UNCHANGED << deferred_deallocations, freed >>
  /\ UNCHANGED << RUNTIME, GLOBAL_OBJECT, STACKS, live, stack,
                  CURRENT_TASK_STATE, taskStates, context, state,
                  waitableSets, pc, cur, nTasks, hostCx, hostFunc, imp,
                  nImports, invoked, regAt, marked, made >>

\* What thread t did to its own stack under the stack's lock.
StackEffect(t, eff) ==
  CASE eff = "push" -> [ok |-> TRUE, stack |-> push_u32(stack[t], 1)]
    [] eff = "take" -> [ok |-> TRUE, stack |-> << >>]
    [] eff = "result" -> [ok |-> TRUE, stack |-> Append(stack[t], Int32Value(1))]
    [] eff = "pop" -> [ok |-> pop_u32(stack[t]).ok,
                       stack |-> pop_u32(stack[t]).stack]
    [] OTHER -> [ok |-> TRUE, stack |-> stack[t]]

\* What thread t did to the registry under the STACKS lock.
StacksEffect(t, eff) ==
  CASE eff = "insert" -> StacksInsert(STACKS, t)
    [] eff = "remove" -> StacksRemove(STACKS, t)
    [] OTHER -> [ok |-> TRUE, set |-> STACKS]

\* The guard of a lock goes out of scope; what was done under it takes
\* effect.
thread_release(t) ==
  /\ pc = "threads"
  /\ AtOp(t, "release")
  /\ LET l == Head(thr[t].prog).l
         eff == Head(thr[t].prog).eff
         se == StackEffect(t, eff)
         re == StacksEffect(t, eff)
         noState == eff = "poll" /\ PollAborts(CURRENT_TASK_STATE)
         noGlobal == eff = "read_global" /\ ~GLOBAL_OBJECT
         ok == se.ok /\ re.ok /\ ~noState /\ ~noGlobal
     IN /\ owner' = [owner EXCEPT ![l] = 0]
        /\ thr' = [thr EXCEPT ![t] =
                     [@ EXCEPT !.prog = Tail(@),
                               !.realm = @ /\ eff # "exit_realm",
                               !.gc = @ /\ eff # "exit_realm"]]
        /\ stack' = [stack EXCEPT ![t] = se.stack]
        /\ STACKS' = re.set
        /\ live' = CASE eff = "insert" -> live \cup {t}
                     [] eff = "remove" -> live \ {t}
                     [] OTHER -> live
        /\ IF eff = "poll"
           THEN poll(t)
           ELSE /\ CURRENT_TASK_STATE' =
                     IF eff = "new_task" THEN t ELSE CURRENT_TASK_STATE
                /\ taskStates' =
                     IF eff = "new_task"
                     THEN [u \in Tasks |->
                             IF u = t THEN TaskState_new
                             ELSE IF u = CURRENT_TASK_STATE THEN NoTaskState
                             ELSE taskStates[u]]
                     ELSE taskStates
                /\ UNCHANGED << context, waitableSets >>
        /\ pc' = IF ok THEN pc ELSE "aborted"
        /\ GLOBAL_OBJECT' = (GLOBAL_OBJECT \/ eff = "set_global")
        /\ made' = IF eff = "set_global"
                   THEN [made EXCEPT !.global = @ + 1]
                   ELSE made
        /\ last' = IF ok THEN ThreadStep
                   ELSE ThreadAbort(t, l, IF noState THEN "no_task_state"
                                          ELSE IF noGlobal THEN "no_global"
                                          ELSE "assert")
  /\ IF Head(thr[t].prog).eff = "insert" THEN NewDeferred(t)
     ELSE DropDeferred((live \ live') \cap STACKS)
  /\ UNCHANGED << WIT >>
  /\ UNCHANGED << RUNTIME, state, cur, nTasks, hostCx,
                  hostFunc, imp, nImports, invoked, regAt, marked >>

\* with_context: if runtime.is_none() { make_runtime() }.  make_runtime
\* starts: JSEngine::init, Runtime::new, JS_AddExtraGCRootsTracer.
thread_make(t) ==
  /\ pc = "threads"
  /\ AtOp(t, "make")
  /\ made' = IF NeedsRuntime THEN [made EXCEPT !.tracer = @ + 1] ELSE made
  /\ thr' = [thr EXCEPT ![t].prog =
               (IF NeedsRuntime THEN make_runtime ELSE << >>) \o Tail(@)]
  /\ last' = ThreadStep
  /\ UNCHANGED << WIT >>
  /\ UNCHANGED << deferred_deallocations, freed >>
  /\ UNCHANGED << RUNTIME, GLOBAL_OBJECT, STACKS, live, stack,
                  CURRENT_TASK_STATE, taskStates, context, state,
                  waitableSets, pc, cur, nTasks, hostCx, hostFunc, imp,
                  nImports, invoked, regAt, marked, owner >>

\* JS_NewGlobalObject returns the new global.
thread_new_global(t) ==
  /\ pc = "threads"
  /\ AtOp(t, "new_global")
  /\ thr' = Advance(t)
  /\ last' = ThreadStep
  /\ UNCHANGED << WIT >>
  /\ UNCHANGED << deferred_deallocations, freed >>
  /\ UNCHANGED << RUNTIME, GLOBAL_OBJECT, STACKS, live, stack,
                  CURRENT_TASK_STATE, taskStates, context, state,
                  waitableSets, pc, cur, nTasks, hostCx, hostFunc, imp,
                  nImports, invoked, regAt, marked, made, owner >>

\* make_runtime has returned: *runtime = Some(..)
thread_made(t) ==
  /\ pc = "threads"
  /\ AtOp(t, "made")
  /\ RUNTIME' = TRUE
  /\ made' = [made EXCEPT !.runtime = @ + 1]
  /\ thr' = Advance(t)
  /\ last' = ThreadStep
  /\ UNCHANGED << WIT >>
  /\ UNCHANGED << deferred_deallocations, freed >>
  /\ UNCHANGED << GLOBAL_OBJECT, STACKS, live, stack, CURRENT_TASK_STATE,
                  taskStates, context, state, waitableSets, pc, cur, nTasks,
                  hostCx, hostFunc, imp, nImports, invoked, regAt, marked,
                  owner >>

\* The places of a call at which the engine is running and may collect:
\* script is running, or make_runtime is creating the global object.
EngineRuns(t) == AtOp(t, "script") \/ AtOp(t, "new_global")

\* The script function returns.
thread_script_return(t) ==
  /\ pc = "threads"
  /\ AtOp(t, "script")
  /\ thr' = Advance(t)
  /\ last' = ThreadStep
  /\ UNCHANGED << WIT >>
  /\ UNCHANGED << deferred_deallocations, freed >>
  /\ UNCHANGED << RUNTIME, GLOBAL_OBJECT, STACKS, live, stack,
                  CURRENT_TASK_STATE, taskStates, context, state,
                  waitableSets, pc, cur, nTasks, hostCx, hostFunc, imp,
                  nImports, invoked, regAt, marked, made, owner >>

\* The engine collects while it runs: trace_roots, once registered, is
\* called on the thread that is inside with_context.
thread_gc(t) ==
  /\ pc = "threads"
  /\ EngineRuns(t)
  /\ made.tracer >= 1
  /\ ~thr[t].gc
  /\ thr' = [thr EXCEPT ![t] =
               [@ EXCEPT !.prog = TraceProg \o @, !.gc = TRUE]]
  /\ last' = ThreadStep
  /\ UNCHANGED << WIT >>
  /\ UNCHANGED << deferred_deallocations, freed >>
  /\ UNCHANGED << RUNTIME, GLOBAL_OBJECT, STACKS, live, stack,
                  CURRENT_TASK_STATE, taskStates, context, state,
                  waitableSets, pc, cur, nTasks, hostCx, hostFunc, imp,
                  nImports, invoked, regAt, marked, made, owner >>

\* The loops of trace_roots: stack.0.try_lock().unwrap() for every stack in
\* STACKS.
thread_trace(t) ==
  /\ pc = "threads"
  /\ AtOp(t, "trace")
  /\ LET busy == {c \in TracedStacks : owner[StackLock(c)] # 0}
     IN IF busy = {}
        THEN /\ marked' = << GlobalRoot >> \o TraceStacks(TracedStacks)
             /\ thr' = Advance(t)
             /\ pc' = pc
             /\ last' = ThreadStep
        ELSE /\ pc' = "aborted"
             /\ last' = ThreadAbort(t, StackLock(CHOOSE c \in busy : TRUE),
                                    "contended")
             /\ UNCHANGED << marked, thr >>
  /\ UNCHANGED << WIT >>
  /\ UNCHANGED << deferred_deallocations, freed >>
  /\ UNCHANGED << RUNTIME, GLOBAL_OBJECT, STACKS, live, stack,
                  CURRENT_TASK_STATE, taskStates, context, state,
                  waitableSets, cur, nTasks, hostCx, hostFunc, imp,
                  nImports, invoked, regAt, made, owner >>

\* The call returns to the host.
thread_return(t) ==
  /\ pc = "threads"
  /\ AtOp(t, "ret")
  /\ thr' = Advance(t)
  /\ last' = ThreadStep
  /\ UNCHANGED << WIT >>
  /\ UNCHANGED << deferred_deallocations, freed >>
  /\ UNCHANGED << RUNTIME, GLOBAL_OBJECT, STACKS, live, stack,
                  CURRENT_TASK_STATE, taskStates, context, state,
                  waitableSets, pc, cur, nTasks, hostCx, hostFunc, imp,
                  nImports, invoked, regAt, marked, made, owner >>

InitThreads ==
  /\ RUNTIME = FALSE
  /\ GLOBAL_OBJECT = FALSE
  /\ STACKS = {}
  /\ live = {}
  /\ stack = [c \in CallIds |-> << >>]
  /\ CURRENT_TASK_STATE = 0
  /\ taskStates = [t \in Tasks |-> NoTaskState]
  /\ context = [t \in Tasks |-> 0]
  /\ state = 0
  /\ waitableSets = {}
  /\ pc = "threads"
  /\ cur = NoCur
  /\ nTasks = 0
  /\ hostCx = 0
  /\ hostFunc = NoFunc
  /\ imp = NoImp
  /\ nImports = 0
  /\ invoked = << >>
  /\ regAt = [c \in CallIds |-> {}]
  /\ marked = << >>
  /\ made = NoRuntime
  /\ thr = [t \in Threads |-> IdleThread]
  /\ owner = [l \in Locks |-> 0]
  /\ deferred_deallocations = [c \in CallIds |-> << >>]
  /\ freed = [b \in Buffers |-> 0]
  /\ WIT = TestWorld
  /\ last = ThreadStep

NextThreads ==
  \/ \E t \in Threads, is_async \in BOOLEAN : thread_call(t, is_async)
  \/ \E t \in Threads : thread_try(t)
  \/ \E t \in Threads : thread_lock(t)
  \/ \E t \in Threads : thread_release(t)
  \/ \E t \in Threads : thread_make(t)
  \/ \E t \in Threads : thread_new_global(t)
  \/ \E t \in Threads : thread_made(t)
  \/ \E t \in Threads : thread_script_return(t)
  \/ \E t \in Threads : thread_gc(t)
  \/ \E t \in Threads : thread_trace(t)
  \/ \E t \in Threads : thread_return(t)

SpecThreads == InitThreads /\ [][NextThreads]_vars

(***************************************************************************)
(* Properties.                                                             *)
(***************************************************************************)

C2_LiveCallsRegistered ==
  /\ \A c \in live : c \in STACKS
  /\ \A t \in Tasks : ParkedCalls(t) \subseteq (STACKS \cap live)
  /\ (last.op = "poll" /\ last.own # {}) => ~last.abort

\* How often the tracer's latest run visited root r.
Visits(r) == Cardinality({k \in 1 .. Len(marked) : marked[k] = r})

\* The markable values of the registered stacks, by stack and slot.
MarkableSlots ==
  UNION { { [root |-> "value", call |-> c, slot |-> i] :
              i \in {j \in 1 .. Len(stack[c]) : is_markable(stack[c][j])} } :
          c \in STACKS }

\* C3: a run of trace_roots visits the global object exactly once, every
\* markable value of every stack in STACKS exactly once, and nothing else.
C3_TraceVisitsRoots ==
  (last.op = "trace_roots" /\ ~last.abort) =>
    /\ Visits(GlobalRoot) = 1
    /\ \A r \in MarkableSlots : Visits(r) = 1
    /\ \A k \in 1 .. Len(marked) : marked[k] \in {GlobalRoot} \cup MarkableSlots

\* The tracer ran with two stacks registered, one holding a markable value.
C3_Witness ==
  /\ last.op = "trace_roots"
  /\ MarkableSlots # {}
  /\ Cardinality(STACKS) >= 2
  /\ Len(marked) >= 2

\* C4 (as claimed): push_u32(v) followed immediately by pop_u32() returns v
\* and leaves the stack as it was before the push, for every u32 v.
C4_PushPopRoundTrip ==
  (last.op = "pop_u32" /\ last.prev.op = "push_u32") =>
    /\ ~last.abort
    /\ last.val = last.prev.val
    /\ stack[hostCx] = last.prev.before

\* C5: when the start of an asynchronous export leaves no entry pending, its
\* poll reports exit, no waitable set exists for the task at any time, and
\* no Task State is left current or behind the task's context pointer.
C5_NoPendingFirstPollExits ==
  /\ (last.op = "poll" /\ last.from = "start" /\ last.own = {}) =>
       /\ last.code = "exit"
       /\ ~last.abort
       /\ last.set = 0
       /\ waitableSets = {}
       /\ context[last.task] = 0
       /\ CURRENT_TASK_STATE = 0
  /\ (cur.kind = "async" /\ PendingHandles(taskStates[cur.task]) = {}) =>
       /\ taskStates[cur.task].waitable_set = 0
       /\ waitableSets = {}

\* An asynchronous export whose async import completed synchronously exited.
C5_Witness ==
  /\ last.op = "poll"
  /\ last.from = "start"
  /\ last.code = "exit"
  /\ invoked # << >>
  /\ pc = "idle"

\* C6: when the host completes an async import call synchronously, call_import
\* invokes the resolve callback of that call with the lifted result, leaves
\* every pending map as it was, and has destroyed its Call Context when it
\* returns.
C6_SyncCompletionResolves ==
  [][ (last'.op = "call_import" /\ last'.is_async /\ last'.subtask = 0
       /\ last'.lowered) =>
        /\ invoked' = Append(invoked,
                             [fn |-> "resolve", promise |-> last'.promise,
                              value |-> UInt32Value(last'.result)])
        /\ taskStates' = taskStates
        /\ last'.call \notin live'
        /\ last'.call \notin STACKS'
        /\ pc' = "script" ]_vars

\* Inside an asynchronous export an async import completed synchronously.
C6_Witness ==
  /\ last.op = "call_import"
  /\ last.is_async
  /\ last.subtask = 0
  /\ last.lowered
  /\ CURRENT_TASK_STATE # 0
  /\ pc = "script"

\* C7: a RETURNED event for a handle with a pending entry invokes that
\* entry's callback, once, and removes the entry (and no other); a RETURNED
\* event for a handle without a pending entry (a second one for the same
\* handle included) aborts with no callback invoked and the map unchanged.
C7_ReturnedSettlesOnce ==
  [][ (last'.op = "export_async_callback" /\ last'.what = "settle") =>
        IF last'.entry # NoEntry
        THEN /\ last'.settled
             /\ taskStates'[last'.ts].pending =
                  [taskStates[last'.ts].pending EXCEPT ![last'.event1] = NoEntry]
             /\ Len(invoked') = Len(invoked) + 1
             /\ invoked'[Len(invoked')].promise = last'.entry.promise
             /\ Cardinality({k \in 1 .. Len(invoked') :
                   invoked'[k].promise = last'.entry.promise}) = 1
        ELSE /\ pc' = "aborted"
             /\ invoked' = invoked
             /\ taskStates' = taskStates ]_vars

\* A RETURNED event settled a pending entry while another stayed pending.
C7_Witness ==
  /\ last.op = "export_async_callback"
  /\ last.settled
  /\ ~last.abort
  /\ PendingHandles(taskStates[last.ts]) # {}

\* C8 (as claimed): a task does not report exit while a subtask entry is
\* pending; the poll that finds the subtask pending reports wait, so that the
\* final result follows a wait and the subtask's RETURNED event.
C8_ResultAfterWaitAndReturned ==
  /\ (last.op = "poll" /\ last.code = "exit") => last.own = {}
  /\ (last.op = "poll" /\ last.own # {}) => last.code = "wait"

\* A number a u32 parameter or result can carry.
IsU32Number(val) ==
  val.t \in {"int32", "double"} /\ val.v \in 0 .. U32Modulus - 1

\* C9 (as claimed): in a synchronous export, a synchronous import receives
\* the numbers the script passed, in parameter order, the script receives
\* the import's result, and the host reads the script function's return
\* value back from the export's Call Context.
C9_SyncValuesCarried ==
  /\ (last.op = "call_import" /\ ~last.is_async /\ cur.kind = "sync"
      /\ \A k \in 1 .. Len(last.passed) : IsU32Number(last.passed[k])) =>
       /\ ~last.abort
       /\ last.received = [k \in 1 .. Len(last.passed) |-> last.passed[k].v]
       /\ last.rval.v = last.result
  /\ (last.op = "pop_result" /\ IsU32Number(last.top)) =>
       /\ ~last.abort
       /\ last.val = last.top.v

\* C10 (as claimed): a poll reports exit exactly when the task's Task State
\* has no pending entry; on exit the Task State's waitable set is released
\* and the Task State is neither current nor behind the context pointer.
C10_PollExitsIffNonePending ==
  last.op = "poll" =>
    /\ (last.code = "exit") <=> (last.own = {})
    /\ last.code = "exit" =>
         /\ last.set \notin waitableSets
         /\ CURRENT_TASK_STATE = 0
         /\ context[last.task] = 0

\* C11 (as claimed): a poll that finds entries pending does not abort: it
\* reports wait carrying a waitable set that exists at the host, and leaves
\* the Task State behind the task's context pointer.
C11_PollWaitsWhenPending ==
  (last.op = "poll" /\ last.own # {}) =>
    /\ ~last.abort
    /\ last.code = "wait"
    /\ last.set \in waitableSets
    /\ context[last.task] # 0
    /\ PendingHandles(taskStates[context[last.task]]) = last.own

\* C12 (as claimed): the poll that ends export_async_callback inspects the
\* Task State the callback reclaimed from the context pointer and, when
\* entries remain, stashes that same Task State again.
C12_CallbackPollsReclaimedState ==
  (last.op = "poll" /\ last.from = "callback") =>
    /\ last.ts # 0
    /\ last.ts = state \/ state = 0
    /\ last.own # {} => (last.code = "wait" /\ context[last.task] = last.ts)
    /\ \A t \in Tasks :
         ~(CURRENT_TASK_STATE = t /\ \E u \in Tasks : context[u] = t)

\* C20 (as claimed): a subtask that script registers while a task is being
\* started or resumed is recorded in the pending map of that task's Task
\* State and in no other.
C20_SubtaskRecordedInOwnTask ==
  (last.op = "call_import" /\ last.subtask # 0 /\ last.lowered
   /\ cur.kind \in {"async", "callback"}) =>
    /\ ~last.abort
    /\ \E s \in Tasks :
         /\ s = (IF cur.kind = "callback" THEN context[cur.task]
                                          ELSE cur.task)
         /\ last.subtask \in PendingHandles(taskStates[s])
         /\ taskStates[s].pending[last.subtask].call = last.call
         /\ \A u \in Tasks \ {s} :
              last.subtask \notin PendingHandles(taskStates[u])

\* C16: call_import called with an argument array whose length differs from
\* the parameter count of the descriptor at the index aborts with no Call
\* Context created or registered, the host import not invoked, and no
\* pending entry registered.
C16_ArgCountMismatchAborts ==
  [][ (last'.op = "call_import_begin"
       /\ Len(last'.passed) # ImportFuncs[last'.index].params) =>
        /\ pc' = "aborted"
        /\ last'.call = 0
        /\ STACKS' = STACKS
        /\ live' = live
        /\ stack' = stack
        /\ imp' = NoImp
        /\ taskStates' = taskStates
        /\ invoked' = invoked ]_vars

\* Inside an asynchronous export, script called the two-parameter import
\* with one argument.
C16_Witness ==
  /\ last.op = "call_import_begin"
  /\ last.index = 3
  /\ Len(last.passed) = 1
  /\ cur.kind = "async"
  /\ pc = "aborted"

\* Where a step stands in the steps the latest callback took (0: not taken).
StepAt(r, name) ==
  IF \E k \in 1 .. Len(r.steps) : r.steps[k] = name
  THEN CHOOSE k \in 1 .. Len(r.steps) : r.steps[k] = name
  ELSE 0

C14_ErrorResultRejects ==
  (last.op = "export_async_callback" /\ last.settled) =>
    /\ invoked[Len(invoked)].promise = last.entry.promise
    /\ invoked[Len(invoked)].fn = (IF last.err THEN "reject" ELSE "resolve")

\* C15 (as claimed): every event other than a subtask event in phase STARTED
\* or RETURNED makes export_async_callback abort with the pending map
\* unchanged and no callback invoked.
C15_OtherEventsFatal ==
  [][ (last'.op = "export_async_callback"
       /\ ~(last'.event0 = "subtask"
            /\ last'.event2 \in {"started", "returned"})) =>
        /\ pc' = "aborted"
        /\ taskStates' = taskStates
        /\ invoked' = invoked ]_vars

\* C15 (amended): export_async_callback aborts, with the pending map
\* unchanged and no callback invoked, for a subtask event in phase STARTING,
\* a subtask event in any phase other than STARTED and RETURNED, and every
\* event kind other than 'none' and subtask; the 'none' event, like a subtask
\* event in phase STARTED, is accepted: it changes nothing and the handler
\* goes on to poll.
C15_UnhandledEventsFatal ==
  [][ last'.op = "export_async_callback" =>
        /\ (last'.event0 \notin {"none", "subtask"}
            \/ (last'.event0 = "subtask"
                /\ last'.event2 \notin {"started", "returned"})) =>
             /\ pc' = "aborted"
             /\ taskStates' = taskStates
             /\ invoked' = invoked
        /\ (last'.event0 = "none"
            \/ (last'.event0 = "subtask" /\ last'.event2 = "started")) =>
             /\ pc' = "script"
             /\ cur'.kind = "callback"
             /\ taskStates' = taskStates
             /\ invoked' = invoked
             /\ STACKS' = STACKS ]_vars

\* The host delivered the 'none' event to a suspended task, and the handler
\* went on to the job queue run of its poll.
C15_Witness ==
  /\ last.op = "export_async_callback"
  /\ last.event0 = "none"
  /\ ~last.abort
  /\ pc = "script"
  /\ cur.kind = "callback"

\* C17: the runtime, the tracer registration and the global object are each
\* made at most once, by the first with_context call; every later call
\* enters what is there; once a with_context call has been made the runtime
\* and the global object are both set.
C17_RuntimeMadeOnce ==
  /\ made.runtime <= 1
  /\ made.tracer <= 1
  /\ made.global <= 1
  /\ RUNTIME <=> GLOBAL_OBJECT
  /\ RUNTIME <=> made = OneRuntime
  /\ last.op \in {"init", "export_call", "export_async_start",
                  "export_async_callback"} => RUNTIME

\* A second export is being started: a later with_context call found the
\* runtime made.
C17_Witness ==
  /\ nTasks = 2
  /\ last.op = "export_async_start"
  /\ made = OneRuntime

\* The threads that are inside with_context.
InRealm == {t \in Threads : thr[t].realm}

\* C18 (as claimed): with calls delivered from several native threads, no
\* two are inside the realm at the same time, and none aborts because
\* another call holds a lock.
C18_ThreadsNeverAbortOnLocks ==
  /\ Cardinality(InRealm) <= 1
  /\ ~(last.abort /\ last.why = "contended")

\* C18 (amended): with calls delivered from several native threads, no two
\* are inside the realm at the same time: a call waits for the RUNTIME lock,
\* and so never aborts because of it or because of the GLOBAL_OBJECT lock,
\* which is taken only inside the realm.  The GC Root Registry lock, the
\* current-Task-State lock and the stack locks are taken with try_lock: a
\* call that finds one of them held by another thread aborts.
C18_RealmExclusive ==
  /\ Cardinality(InRealm) <= 1
  /\ \A t \in InRealm : owner[StaticLock("RUNTIME")] = t
  /\ \A t \in Threads :
       (AtOp(t, "script") \/ AtOp(t, "trace")) => t \in InRealm
  /\ (last.abort /\ last.why = "contended") =>
       /\ last.lock \in {StaticLock("STACKS"),
                         StaticLock("CURRENT_TASK_STATE")}
                          \cup {StackLock(c) : c \in CallIds}
       /\ owner[last.lock] \notin {0, last.thread}

\* One thread runs script inside the realm while another waits for the
\* RUNTIME lock.
C18_Witness ==
  \E t, u \in Threads :
    /\ t # u
    /\ AtOp(t, "script")
    /\ AtOp(u, "lock")
    /\ owner[StaticLock("RUNTIME")] = t

\* C19: a thread whose call has returned to the host (a synchronous export
\* returned, an asynchronous start returned its code, or any other call of
\* the Call Context returned) holds none of the locks.
C19_NoLockHeldAtHost ==
  \A t \in Threads :
    thr[t].prog = << >> =>
      /\ \A l \in Locks : owner[l] # t
      /\ t \notin InRealm

\* One thread's asynchronous start has returned to the host and another
\* thread's synchronous export has returned, after a collection.
C19_Witness ==
  \E t, u \in Threads :
    /\ thr[t].prog = << >> /\ thr[t].phase = "done" /\ thr[t].is_async
    /\ thr[u].prog = << >> /\ thr[u].phase = "called"
    /\ marked # << >>
    /\ pc = "threads"

\* C21 (as claimed): the RETURNED events delivered to a task are processed
\* one by one in delivery order: the callback of each is invoked during the
\* handling of that event (none is deferred or merged), and while entries
\* remain pending the handler gets back to the host, the task suspended
\* again, so that the next event is accepted.
C21_ReturnedEventsInOrder ==
  /\ (last.op = "export_async_callback" /\ last.settled) =>
       invoked[Len(invoked)].promise = last.entry.promise
  /\ (last.op = "poll" /\ last.from = "callback" /\ last.own # {}) =>
       /\ ~last.abort
       /\ pc = "idle"
       /\ context[last.task] # 0

\* C23: a pop_u32 that finds the stack empty, or finds on top a value that is
\* not held as an int32, aborts and returns no converted value; the pop
\* functions of the other kinds abort whatever the stack holds.
C23_PopWrongKindAborts ==
  /\ (last.op = "pop_u32" /\ (last.depth = 0 \/ last.top.t # "int32")) =>
       /\ last.abort
       /\ pc = "aborted"
       /\ last.val = 0
  /\ last.op = "pop_todo" => last.abort /\ pc = "aborted"

C23_Witness ==
  /\ last.op = "pop_u32"
  /\ last.depth > 0
  /\ last.top.t \in {"double", "object"}
  /\ last.abort

\* C29: a synchronous export call hands the script function every argument
\* the host pushed, in the order pushed, and leaves none on the stack; when
\* the function has returned, the stack holds exactly its return value if
\* the export declares a result and is empty otherwise.
C29_SyncExportStack ==
  /\ last.op = "export_call" =>
       /\ last.params =
            [i \in 1 .. Len(last.pushed) |-> UInt32Value(last.pushed[i])]
       /\ Len(last.params) = hostFunc.params
       /\ stack[hostCx] = << >>
  /\ last.op = "script_return" =>
       stack[hostCx] = IF hostFunc.result THEN << last.value >> ELSE << >>

C29_Witness ==
  /\ last.op = "export_call"
  /\ Len(last.pushed) = 2
  /\ last.pushed[1] # last.pushed[2]

\* C22: a buffer registered with defer_deallocate is not freed while its
\* Call Context is alive, whatever is pushed or popped; the destruction of
\* the Call Context frees every buffer registered on it, and no buffer is
\* ever freed twice.
C22_DeferredFreedAtDrop ==
  /\ \A b \in Buffers : freed[b] <= 1
  /\ \A c \in live : \A i \in 1 .. Len(deferred_deallocations[c]) :
       freed[deferred_deallocations[c][i]] = 0
  /\ (last.op = "drop" /\ ~last.abort /\ pc = "dropped") =>
       \A i \in 1 .. Len(last.deferred) : freed[last.deferred[i]] = 1
  /\ last.op \in {"push_u32", "pop_u32", "pop_todo", "defer_deallocate"} =>
       \A b \in Buffers : freed[b] = 0

C22_Witness ==
  /\ last.op = "drop"
  /\ pc = "dropped"
  /\ Len(last.deferred) >= 2
  /\ \A i \in 1 .. Len(last.deferred) : freed[last.deferred[i]] = 1

\* The script identifiers of an import: its interface's and its own.
InterfaceId(func) ==
  IF func.interface = 0 THEN << >>
  ELSE Replace(Interfaces[func.interface], {":", "/", "-"})

FuncId(func) == Replace(func.name, {"-"})

\* The object literal an import's function belongs in: the top level, or the
\* namespace object of its interface.
HomeOf(text, func) ==
  IF func.interface = 0 THEN text
  ELSE Members(Property(text, InterfaceId(func)))

\* function(params){return dispatch(index,[params])}, and for an
\* asynchronous import
\* function(params){return new Promise((a,b)=>dispatch(index,[params],a,b))}.
DispatchFunction(index, func) ==
  LET dispatch(rest) ==
        T("componentize_js_call_import") \o T("(") \o Decimal(index)
          \o T(",") \o T("[") \o ImportParams(func) \o T("]") \o rest
          \o T(")")
  IN T("function") \o T("(") \o ImportParams(func) \o T(")") \o T("{")
       \o T("return")
       \o (IF func.is_async
           THEN T("new") \o T("Promise") \o T("(") \o T("(") \o T("a")
                  \o T(",") \o T("b") \o T(")") \o T("=>")
                  \o dispatch(T(",") \o T("a") \o T(",") \o T("b"))
                  \o T(")")
           ELSE dispatch(<< >>))
       \o T("}")

\* C24 (as claimed): the shim init generates has, for the import at every
\* position of the table, exactly one function under its interface's
\* namespace (or at top level), and that function takes the import's
\* parameters and calls dispatch with that position and those parameters,
\* inside a new Promise when the import is asynchronous.
C24_ShimCallsDispatch ==
  last.op = "init" =>
    \A i \in 1 .. Len(WIT.imports) :
      LET func == WIT.imports[i]
          home == HomeOf(last.imports, func)
      IN /\ Cardinality(EntriesFor(home, FuncId(func))) = 1
         /\ Property(home, FuncId(func)) = DispatchFunction(i, func)

\* An export's wrapper: a function that calls into `exports` and names the
\* export's position.
IsWrapper(value, index) ==
  /\ value # << >>
  /\ value[1] = << "function" >>
  /\ \E k \in 1 .. Len(value) : value[k] = << "exports" >>
  /\ \E k \in 1 .. Len(value) : << value[k] >> = Decimal(index)

\* C25 (as claimed): the async export namespace init installs has a wrapper
\* for every export of the world under its name, and no import function.
C25_AsyncExportsWrapExports ==
  (last.op = "init" /\ last.evaluated) =>
    /\ \A i \in 1 .. Len(WIT.exports) :
         IsWrapper(Property(HomeOf(last.componentize_js_async_exports,
                                   WIT.exports[i]),
                            FuncId(WIT.exports[i])), i)
    /\ \A k \in 1 .. Len(last.componentize_js_async_exports) :
         last.componentize_js_async_exports[k]
           # << "componentize_js_call_import" >>

\* Two imports, or two interfaces, of the world come out as one identifier.
Collides(wit) ==
  \E i, j \in 1 .. Len(wit.imports) :
    /\ i # j
    /\ InterfaceId(wit.imports[i]) = InterfaceId(wit.imports[j])
    /\ \/ FuncId(wit.imports[i]) = FuncId(wit.imports[j])
       \/ wit.imports[i].interface # wit.imports[j].interface

\* C26 (as claimed): init on a world in which the name translation makes two
\* imports or two interfaces collide returns an error.
C26_CollisionFailsInit ==
  (last.op = "init" /\ Collides(WIT)) => last.result = "err"

C28_StartedIsAcknowledged ==
  [][ /\ (last'.op = "export_async_callback" /\ last'.event0 = "subtask"
          /\ last'.event2 = "started") =>
           /\ taskStates' = taskStates
           /\ stack' = stack
           /\ live' = live
           /\ STACKS' = STACKS
           /\ invoked' = invoked
      /\ (last.op = "export_async_callback" /\ last.event0 = "subtask"
          /\ last.event2 = "started" /\ last'.op = "poll") =>
           /\ ~last'.abort
           /\ last'.code = "wait"
           /\ context'[last'.task] = last.ts
           /\ taskStates' = taskStates ]_vars

\* C30 (as claimed): once the RETURNED event of a task's last pending
\* subtask has been processed, the task reports exit, with its Task State
\* destroyed and none of the stacks it captured left in the GC Root
\* Registry (unless the script that the job queue runs aborts the instance
\* by a fault of its own).
C30_TaskEventuallyExits ==
  (last.op = "export_async_callback" /\ last.settled /\ last.atInvoke = {})
    ~> \/ /\ last.op = "poll"
          /\ last.code = "exit"
          /\ ~last.abort
          /\ ~taskStates[last.task].alive
          /\ STACKS = {}
       \/ pc = "aborted" /\ last.op # "poll"

\* The steps that take a call already inside the instance to its return: a
\* call_import in progress runs on, and a handler whose job queue has run
\* polls.
ResumeSteps ==
  \/ call_import_element
  \/ \E subtask \in {0} \cup Handles, res \in U32Samples :
       call_import_dispatch(subtask, res)
  \/ export_async_callback_return

\* The resumed instance, in which a call inside the instance runs on.
SpecResumeFair == SpecResume /\ WF_vars(ResumeSteps)

\* The callbacks a pending entry holds, as the tracer would report them.
CallbackRoot(fn, entry) ==
  [root |-> fn, call |-> entry.call, slot |-> entry.promise]

\* C31 (as claimed): a run of trace_roots visits, for every pending entry of
\* every Task State, the entry's resolve and reject callbacks and every
\* markable value on the stack of the Call Context the entry captured.
C31_PendingEntriesTraced ==
  (last.op = "trace_roots" /\ ~last.abort) =>
    \A t \in Tasks :
      taskStates[t].alive =>
        \A h \in PendingHandles(taskStates[t]) :
          LET entry == taskStates[t].pending[h]
          IN /\ Visits(CallbackRoot("resolve", entry)) >= 1
             /\ Visits(CallbackRoot("reject", entry)) >= 1
             /\ \A i \in 1 .. Len(stack[entry.call]) :
                  is_markable(stack[entry.call][i]) =>
                    Visits([root |-> "value", call |-> entry.call,
                            slot |-> i]) >= 1

\* C32 (as claimed): wherever the engine runs with trace_roots registered,
\* the creation of the global object inside make_runtime included, the
\* global object slot is set, and trace_roots never aborts on an unset
\* global object.
C32_GlobalSetWhereEngineRuns ==
  /\ \A t \in Threads :
       (EngineRuns(t) /\ made.tracer >= 1) => GLOBAL_OBJECT
  /\ ~(last.abort /\ last.why = "no_global")

\* The locks trace_roots takes: the GC Root Registry lock, the global-object
\* lock and the lock of every registered stack.
TracedLocks ==
  {StaticLock("STACKS"), StaticLock("GLOBAL_OBJECT")}
    \cup {StackLock(c) : c \in STACKS}

\* Thread t is inside trace_roots.
InTrace(t) ==
  \E k \in 1 .. Len(thr[t].prog) : thr[t].prog[k].k = "trace"

\* C33 (as claimed): wherever the engine may collect, none of the locks
\* trace_roots takes is held, and no try_lock of trace_roots fails.
C33_NoTracedLockHeld ==
  /\ \A t \in Threads :
       EngineRuns(t) => \A l \in TracedLocks : owner[l] = 0
  /\ ~(last.abort /\ last.why = "contended" /\ InTrace(last.thread))

\* C33 (amended): wherever the engine may collect, the call that runs the
\* engine holds none of the locks trace_roots takes, and no call holds the
\* global-object lock; a try_lock of trace_roots fails only on the GC Root
\* Registry lock or a stack lock, and only when a call on another thread
\* holds it.
C33_EngineCallHoldsNoTracedLock ==
  /\ \A t \in Threads :
       EngineRuns(t) =>
         /\ \A l \in TracedLocks : owner[l] # t
         /\ \A c \in CallIds : owner[StackLock(c)] # t
         /\ owner[StaticLock("GLOBAL_OBJECT")] = 0
  /\ (last.abort /\ last.why = "contended" /\ InTrace(last.thread)) =>
       /\ last.lock \in TracedLocks \ {StaticLock("GLOBAL_OBJECT")}
       /\ owner[last.lock] \notin {0, last.thread}

\* A collection ran inside a call while a stack was registered, and script
\* goes on.
C33_Witness ==
  \E t \in Threads :
    /\ AtOp(t, "script")
    /\ thr[t].gc
    /\ STACKS # {}
    /\ Len(marked) >= 1
    /\ pc = "threads"

\* export_call_: the properties it reads in turn, from the global object to
\* the function: the async export namespace or `exports`, the interface with
\* ':', '/' and '-' replaced when there is one, and func.name() as it is.
ExportLookup(func, async_) ==
  << (IF async_ THEN << "componentize_js_async_exports" >>
      ELSE << "exports" >>) >>
    \o (IF func.interface = 0 THEN << >>
        ELSE << Replace(Interfaces[func.interface], {":", "/", "-"}) >>)
    \o << func.name >>

\* The shim generator: the keys under which the wrapper of an export is
\* written, the interface with ':', '/' and '-' replaced when there is one,
\* and the name with '-' replaced.
WrapperKeys(func) ==
  << << "componentize_js_async_exports" >> >>
    \o (IF func.interface = 0 THEN << >>
        ELSE << Replace(Interfaces[func.interface], {":", "/", "-"}) >>)
    \o << Replace(func.name, {"-"}) >>

\* C34 (as claimed): for every export of the world, the properties
\* export_call_ reads at call time are the keys under which the shim
\* generator writes that export's wrapper, whatever characters the names
\* contain.
C34_LookupMatchesWrapperKeys ==
  (last.op = "init" /\ last.evaluated) =>
    \A i \in 1 .. Len(WIT.exports) :
      ExportLookup(WIT.exports[i], TRUE) = WrapperKeys(WIT.exports[i])

====
